---- MODULE Spec2Model ----
(***************************************************************************)
(* A model of the MQTT 5 codec of rust-mqtt (crate `mqtt`, with the        *)
(* `MqttProperties` derive macro of `mqtt-derive`).                        *)
(*                                                                         *)
(* Bytes are naturals 0..255, a Vec<u8> / &[u8] is a sequence of bytes, a  *)
(* String is the sequence of its UTF-8 bytes.  Option<T> is a sequence of  *)
(* length 0 (None) or 1 (Some).  A HashMap<String,String> is a set of      *)
(* <<key, value>> pairs with pairwise distinct keys.  A Result is a record *)
(* with tag "Ok" (val), "Err" (err: the MqttError variant) or "Panic" (an  *)
(* index, slice or unwrap failure, or an arithmetic overflow in a build    *)
(* with overflow checks).                                                  *)
(***************************************************************************)
EXTENDS Integers, Sequences, FiniteSets, TLC

VARIABLES
    build,    \* "debug" (overflow checks on) or "release" (wrapping arithmetic)
    kind,     \* the operation family the value under test belongs to
    value,    \* the in-memory input value (a packet, an integer, constructor arguments)
    wire,     \* the byte sequence produced by encoding, or received from the transport
              \* (mqtt-cli: what the last receive of the Client returned)
    result,   \* the Result of the decoder or constructor
    pc,       \* "new" -> "encoded" -> "decoded", "new" -> "built", or
              \* "received" -> "answered" for bytes that arrive from the transport
    client,   \* mqtt-cli: the fields packet_id and connected of struct Client
    main,     \* mqtt-cli: where the thread that calls the Client is
    ret,      \* mqtt-cli: the operation that returned last and its Result
    sent,     \* mqtt-cli: the packets written to the stream, in order
    stream,   \* mqtt-cli: "open", "shutdown" (by the client) or "closed" (by the server)
    listener, \* mqtt-cli: the thread spawned by Client::listen and its last read
    trace,    \* mqtt-cli: the packets received and sent by the publish call in progress
    calls     \* mqtt-cli: the number of calls made on the Client

codec == <<build, kind, value, wire, result, pc>>

cli == <<client, main, ret, sent, stream, listener, trace, calls>>

vars == <<build, kind, value, wire, result, pc, client, main, ret, sent, stream, listener,
          trace, calls>>

----------------------------------------------------------------------------
(* Option, Result                                                          *)

None == <<>>

Some(v) == <<v>>

IsSome(o) == Len(o) = 1

Ok(v) == [tag |-> "Ok", val |-> v]

Err(k) == [tag |-> "Err", err |-> k]

Panic == [tag |-> "Panic"]

IsOk(r) == r.tag = "Ok"

IsErr(r) == r.tag = "Err"

\* the ? operator: continue with the value of an Ok, return anything else
Try(r, K(_)) == IF IsOk(r) THEN K(r.val) ELSE r

----------------------------------------------------------------------------
(* Bytes and fixed-width integers                                          *)

Byte == 0..255

Pow2(k) == 2 ^ k

\* bit k (0 = least significant) of byte b
Bit(b, k) == (b \div Pow2(k)) % 2

\* src[from..] of Rust, with from counted from 0; the caller checks from <= len
SliceFrom(s, from) == SubSeq(s, from + 1, Len(s))

\* src[from..to] of Rust, 0-based, to exclusive
Slice(s, from, to) == SubSeq(s, from + 1, to)

Repeat(b, n) == [i \in 1..n |-> b]

push_be_u16(val) == << (val \div 256) % 256, val % 256 >>

push_be_u32(val) ==
    << (val \div 16777216) % 256, (val \div 65536) % 256, (val \div 256) % 256, val % 256 >>

\* packet/mod.rs: `if index >= src.len()` rejects a slice of exactly two bytes
u16_from_be_bytes(src) ==
    IF 2 >= Len(src) THEN Err("Message") ELSE Ok(src[1] * 256 + src[2])

\* packet/mod.rs: `if index >= src.len()` rejects a slice of exactly four bytes
u32_from_be_bytes(src) ==
    IF 4 >= Len(src)
    THEN Err("Message")
    ELSE Ok(src[1] * 16777216 + src[2] * 65536 + src[3] * 256 + src[4])

----------------------------------------------------------------------------
(* types/integer.rs: VariableByteInteger                                   *)

VariableByteInteger_encoded_len_wrong_threshold(v) ==
    IF v < 127 THEN 1 ELSE IF v <= 16383 THEN 2 ELSE IF v <= 2097151 THEN 3 ELSE 4

VariableByteInteger_encoded_len(v) ==
    IF v <= 127 THEN 1 ELSE IF v <= 16383 THEN 2 ELSE IF v <= 2097151 THEN 3 ELSE 4

\* The loop of try_from over bytes[i..].  value and multiplier are u32.  The
\* multiplier is 128^(i-1) up to the fifth byte, where `multiplier *= 128`
\* leaves the u32 range (2^35): a panic with overflow checks, 0 when wrapping.
\* `masked * multiplier` leaves the range at the fifth byte when masked >= 16.
\* ovf records that one of them happened.
RECURSIVE vbi_loop(_, _, _, _, _)
vbi_loop(bytes, i, val, mult, ovf) ==
    IF i > Len(bytes)
    THEN [value |-> val, ovf |-> ovf, consumed |-> i - 1]
    ELSE LET masked == bytes[i] % 128
             top    == mult = 268435456
             prod   == IF top THEN (masked % 16) * mult ELSE masked * mult
             sum    == val + prod
             mult2  == IF top THEN 0 ELSE mult * 128
             ovf2   == ovf \/ top
         IN  IF bytes[i] < 128
             THEN [value |-> sum, ovf |-> ovf2, consumed |-> i]
             ELSE vbi_loop(bytes, i + 1, sum, mult2, ovf2)

vbi_scan(bytes) == vbi_loop(bytes, 1, 0, 1, FALSE)

vbi_result(r) == IF r.ovf /\ build = "debug" THEN Panic ELSE Ok(r.value)

\* TryFrom<&[u8]> for VariableByteInteger: never an Err; the value only
VariableByteInteger_try_from(bytes) == vbi_result(vbi_scan(bytes))

RECURSIVE vbi_push(_)
vbi_push(val) ==
    IF val = 0 THEN <<>>
    ELSE LET rest == val \div 128
         IN  << (val % 128) + (IF rest > 0 THEN 128 ELSE 0) >> \o vbi_push(rest)

\* From<VariableByteInteger> for Vec<u8>
VariableByteInteger_into(val) == IF val = 0 THEN <<0>> ELSE vbi_push(val)

----------------------------------------------------------------------------
(* types/string.rs: UTF8String, UTF8StringPair; types/bytes.rs: BinaryData  *)

InRange(b, lo, hi) == lo <= b /\ b <= hi

Cont(s, i) == i <= Len(s) /\ InRange(s[i], 128, 191)

\* String::from_utf8 accepts exactly the well-formed UTF-8 byte sequences
RECURSIVE WellFormedUtf8(_, _)
WellFormedUtf8(s, i) ==
    IF \A j \in i..Len(s) : s[j] <= 127 THEN TRUE
    ELSE LET b == s[i]
         IN  IF b <= 127 THEN WellFormedUtf8(s, i + 1)
             ELSE IF InRange(b, 194, 223)
             THEN Cont(s, i + 1) /\ WellFormedUtf8(s, i + 2)
             ELSE IF InRange(b, 224, 239)
             THEN /\ i + 1 <= Len(s)
                  /\ InRange(s[i + 1], IF b = 224 THEN 160 ELSE 128, IF b = 237 THEN 159 ELSE 191)
                  /\ Cont(s, i + 2)
                  /\ WellFormedUtf8(s, i + 3)
             ELSE IF InRange(b, 240, 244)
             THEN /\ i + 1 <= Len(s)
                  /\ InRange(s[i + 1], IF b = 240 THEN 144 ELSE 128, IF b = 244 THEN 143 ELSE 191)
                  /\ Cont(s, i + 2)
                  /\ Cont(s, i + 3)
                  /\ WellFormedUtf8(s, i + 4)
             ELSE FALSE

\* From<UTF8String> for Vec<u8>; opt is the Option<String> held by the UTF8String
UTF8String_into(opt) ==
    IF IsSome(opt)
    THEN push_be_u16(Len(opt[1]) % 65536) \o opt[1]
    ELSE <<0, 0>>

\* MqttDataType::encoded_len for UTF8String
UTF8String_encoded_len(opt) == 2 + (IF IsSome(opt) THEN Len(opt[1]) ELSE 0)

\* TryFrom<&[u8]> for UTF8String: Ok carries the Option<String> (always Some).
\* split_at(2) and value[..length] panic on a short slice.
UTF8String_try_from(src) ==
    IF Len(src) < 2 THEN Panic
    ELSE LET length == src[1] * 256 + src[2]
         IN  IF length > Len(src) - 2 THEN Panic
             ELSE LET s == Slice(src, 2, 2 + length)
                  IN  IF WellFormedUtf8(s, 1) THEN Ok(Some(s)) ELSE Err("Message")

\* From<UTF8StringPair> for Vec<u8>
UTF8StringPair_into(key, val) == UTF8String_into(key) \o UTF8String_into(val)

\* TryFrom<&[u8]> for UTF8StringPair: Ok carries [key, value], each an Option<String>
UTF8StringPair_try_from(src) ==
    Try(UTF8String_try_from(src), LAMBDA k :
        Try(UTF8String_try_from(SliceFrom(src, UTF8String_encoded_len(k))), LAMBDA v :
            Ok([key |-> k, value |-> v])))

\* From<BinaryData> for Vec<u8>
BinaryData_into(inner) == push_be_u16(Len(inner) % 65536) \o inner

\* TryFrom<&[u8]> for BinaryData: Ok carries the inner Vec<u8>
BinaryData_try_from(src) ==
    IF Len(src) < 2 THEN Err("Message")
    ELSE LET length == src[1] * 256 + src[2]
         IN  IF length > Len(src) - 2 THEN Err("Message")
             ELSE Ok(Slice(src, 2, 2 + length))

----------------------------------------------------------------------------
(* types/codes.rs: ReasonCode; types/qos.rs: QoS.  Both are modelled by    *)
(* their numeric value.                                                    *)

Success == 0

PacketIdentifierNotFound == 146

\* the numeric values of the variants of enum ReasonCode
ReasonCodes == {0, 1, 2, 4, 16, 17, 24, 25} \cup (128..162)

\* TryFrom<u8> for ReasonCode
ReasonCode_try_from(b) == IF b \in ReasonCodes THEN Ok(b) ELSE Err("Message")

\* ReasonCode::is_err: `num <= 128`
ReasonCode_is_err(rc) == rc <= 128

\* TryFrom<u8> for QoS
QoS_try_from(b) == IF b \in {0, 1, 2} THEN Ok(b) ELSE Err("MalformedPacket")

----------------------------------------------------------------------------
(* packet/mod.rs: the remaining length of the fixed header                 *)

\* remaining_length: the decoded value, or MalformedPacket when the slice is
\* shorter than announced.  `src.len() - encoded_len` is a usize subtraction:
\* on a slice shorter than the encoded length it panics with overflow checks
\* and wraps to a huge length without them.
remaining_length(src) ==
    Try(VariableByteInteger_try_from(src), LAMBDA v :
        IF Len(src) < VariableByteInteger_encoded_len(v)
        THEN (IF build = "debug" THEN Panic ELSE Ok(v))
        ELSE IF v > Len(src) - VariableByteInteger_encoded_len(v)
             THEN Err("MalformedPacket")
             ELSE Ok(v))

\* encode_and_insert: the encoding of val is inserted at start_index (0-based)
encode_and_insert(encoded, start_index, vec) ==
    SubSeq(vec, 1, start_index) \o encoded \o SubSeq(vec, start_index + 1, Len(vec))

LENGTH_START_INDEX == 1

\* calculate_and_insert_length with the first byte counted in
calculate_and_insert_length_counts_first_byte(packet) ==
    encode_and_insert(VariableByteInteger_into(Len(packet)), LENGTH_START_INDEX, packet)

\* calculate_and_insert_length: packet.len() - 1 as a variable byte integer
\* after the first byte
calculate_and_insert_length(packet) ==
    encode_and_insert(VariableByteInteger_into(Len(packet) - 1), LENGTH_START_INDEX, packet)

----------------------------------------------------------------------------
(* packet/properties.rs and the MqttProperties derive                      *)

\* enum PropertyIdentifier, by the snake_case field name the derive maps to it
PropertyIdentifier(name) ==
    CASE name = "payload_format_indicator" -> 1
      [] name = "message_expiry_interval" -> 2
      [] name = "content_type" -> 3
      [] name = "response_topic" -> 8
      [] name = "correlation_data" -> 9
      [] name = "subscription_identifier" -> 11
      [] name = "session_expiry_interval" -> 17
      [] name = "assigned_client_identifier" -> 18
      [] name = "server_keep_alive" -> 19
      [] name = "authentication_method" -> 21
      [] name = "authentication_data" -> 22
      [] name = "request_problem_information" -> 23
      [] name = "will_delay_interval" -> 24
      [] name = "request_response_information" -> 25
      [] name = "response_information" -> 26
      [] name = "server_reference" -> 28
      [] name = "reason_string" -> 31
      [] name = "receive_maximum" -> 33
      [] name = "topic_alias_maximum" -> 34
      [] name = "topic_alias" -> 35
      [] name = "maximum_qos" -> 36
      [] name = "retain_available" -> 37
      [] name = "user_property" -> 38
      [] name = "maximum_packet_size" -> 39
      [] name = "wildcard_subscription_available" -> 40
      [] name = "subscription_identifier_available" -> 41
      [] name = "shared_subscription_available" -> 42

\* TryFrom<&u8> for PropertyIdentifier: the identifiers that exist
PropertyIdentifiers == {1, 2, 3, 8, 9, 11} \cup (17..19) \cup (21..26) \cup {28, 31} \cup (33..42)

\* the DataRepresentation parse_properties decodes for an identifier
RepOfIdentifier(id) ==
    IF id \in {1, 23, 25, 36, 37, 40, 41, 42} THEN "Byte"
    ELSE IF id \in {19, 33, 34, 35} THEN "TwoByteInt"
    ELSE IF id \in {2, 17, 39, 24} THEN "FourByteInt"
    ELSE IF id \in {3, 8, 18, 21, 26, 28, 31} THEN "UTF8"
    ELSE IF id \in {9, 22} THEN "BinaryData"
    ELSE IF id = 11 THEN "VariByteInt"
    ELSE "UTF8Pair"

\* a field of a property struct: its name and the first segment of its type
\* (the type inside Option<..>)
Field(name, ty) == [name |-> name, ty |-> ty]

ReasonStringAndUserProperty == << Field("reason_string", "String"), Field("user_property", "HashMap") >>

\* the fields of the structs deriving MqttProperties, in declaration order
Fields(T) ==
    CASE T = "ConnectProperties" ->
           << Field("session_expiry_interval", "u32"), Field("receive_maximum", "u16"),
              Field("maximum_packet_size", "u32"), Field("topic_alias_maximum", "u16"),
              Field("request_response_information", "bool"),
              Field("request_problem_information", "bool"),
              Field("user_property", "HashMap"), Field("authentication_method", "String"),
              Field("authentication_data", "Vec") >>
      [] T = "WillProperties" ->
           << Field("will_delay_interval", "u32"), Field("payload_format_indicator", "bool"),
              Field("message_expiry_interval", "u32"), Field("content_type", "String"),
              Field("response_topic", "String"), Field("correlation_data", "Vec"),
              Field("user_property", "HashMap") >>
      [] T = "ConnackProperties" ->
           << Field("session_expiry_interval", "u32"), Field("receive_maximum", "u16"),
              Field("maximum_qos", "QoS"), Field("retain_available", "bool"),
              Field("maximum_packet_size", "u32"),
              Field("assigned_client_identifier", "String"),
              Field("topic_alias_maximum", "u16"), Field("reason_string", "String"),
              Field("user_property", "HashMap"),
              Field("wildcard_subscription_available", "bool"),
              Field("subscription_identifier_available", "bool"),
              Field("shared_subscription_available", "bool"),
              Field("server_keep_alive", "u16"), Field("response_information", "String"),
              Field("server_reference", "String"), Field("authentication_method", "String"),
              Field("authentication_data", "Vec") >>
      [] T = "PublishProperties" ->
           << Field("payload_format_indicator", "bool"),
              Field("message_expiry_interval", "u32"), Field("topic_alias", "u16"),
              Field("response_topic", "String"), Field("correlation_data", "Vec"),
              Field("user_property", "HashMap"),
              Field("subscription_identifier", "VariableByteInteger"),
              Field("content_type", "String") >>
      [] T = "DisconnectProperties" ->
           << Field("session_expiry_interval", "u32"), Field("reason_string", "String"),
              Field("user_property", "HashMap"), Field("server_reference", "String") >>
      [] T = "SubscribeProperties" ->
           << Field("subscription_identifier", "VariableByteInteger"),
              Field("user_property", "HashMap") >>
      [] T = "UnsubscribeProperties" -> << Field("user_property", "HashMap") >>
      [] T = "AuthProperties" ->
           << Field("authentication_method", "String"), Field("authentication_data", "Vec"),
              Field("reason_string", "String"), Field("user_property", "HashMap") >>
      [] T \in {"PubackProperties", "PubrecProperties", "PubrelProperties",
                "PubcompProperties", "SubackProperties", "UnsubackProperties"} ->
           ReasonStringAndUserProperty

PropertyStructs ==
    {"ConnectProperties", "WillProperties", "ConnackProperties", "PublishProperties",
     "DisconnectProperties", "SubscribeProperties", "UnsubscribeProperties",
     "AuthProperties", "PubackProperties", "PubrecProperties", "PubrelProperties",
     "PubcompProperties", "SubackProperties", "UnsubackProperties"}

FieldNames(T) == {Fields(T)[i].name : i \in 1..Len(Fields(T))}

\* the derived Default: None for an Option, an empty map for a HashMap
PropertiesDefault(T) ==
    [n \in FieldNames(T) |-> IF n = "user_property" THEN {} ELSE None]

\* utils.rs data_rep_as_path / encode.rs map_data_types: the DataRepresentation
\* variant of a field
data_rep(f) ==
    CASE f.ty = "u16" -> "TwoByteInt"
      [] f.ty = "u32" -> (IF f.name = "subscription_identifier" THEN "VariByteInt" ELSE "FourByteInt")
      [] f.ty \in {"bool", "QoS"} -> "Byte"
      [] f.ty = "String" -> "UTF8"
      [] f.ty = "Vec" -> "BinaryData"
      [] f.ty = "HashMap" -> "UTF8Pair"
      [] f.ty = "VariableByteInteger" -> "VariByteInt"

\* the order in which `for (k, v) in map` visits a HashMap is not specified:
\* io is an enumeration of a superset of the map, the map is visited in that order
HashMapIter(map, io) == SelectSeq(io, LAMBDA e : e \in map)

\* HashMap::insert: an existing entry with the same key is replaced
HashMapInsert(map, k, v) == {e \in map : e[1] # k} \cup {<<k, v>>}

\* Into<Vec<u8>> for MqttProperty, with the value map_data_types builds for field f
encode_and_append_property(f, v) ==
    << PropertyIdentifier(f.name) >> \o
    (CASE data_rep(f) = "Byte" -> (IF f.ty = "bool" THEN << IF v THEN 1 ELSE 0 >> ELSE << v >>)
       [] data_rep(f) = "TwoByteInt" -> push_be_u16(v)
       [] data_rep(f) = "FourByteInt" -> push_be_u32(v)
       [] data_rep(f) = "VariByteInt" -> VariableByteInteger_into(v)
       [] data_rep(f) = "UTF8" -> UTF8String_into(Some(v))
       [] data_rep(f) = "BinaryData" -> BinaryData_into(v)
       [] data_rep(f) = "UTF8Pair" -> UTF8StringPair_into(Some(v[1]), Some(v[2])))

RECURSIVE encode_entries(_, _)
encode_entries(f, entries) ==
    IF entries = <<>> THEN <<>>
    ELSE encode_and_append_property(f, Head(entries)) \o encode_entries(f, Tail(entries))

\* encode.rs quote_field: a map field emits one property per entry, an Option
\* field emits one when it is Some
quote_field(f, props, io) ==
    IF f.ty = "HashMap"
    THEN encode_entries(f, HashMapIter(props[f.name], io))
    ELSE IF IsSome(props[f.name]) THEN encode_and_append_property(f, props[f.name][1]) ELSE <<>>

RECURSIVE encode_fields(_, _, _, _)
encode_fields(fs, i, props, io) ==
    IF i > Len(fs) THEN <<>>
    ELSE quote_field(fs[i], props, io) \o encode_fields(fs, i + 1, props, io)

insert_length_counts_itself(body) ==
    encode_and_insert(VariableByteInteger_into(Len(body) + 1), 0, body)

\* encode.rs generate_encode: the length of the encoded fields is inserted
\* in front of them
insert_length(body) == encode_and_insert(VariableByteInteger_into(Len(body)), 0, body)

\* encode.rs generate_encode: From<T> for Vec<u8> of a property struct T
Properties_into(T, props, io) == insert_length(encode_fields(Fields(T), 1, props, io))

\* MqttDataType::encoded_len for DataRepresentation
DataRepresentation_encoded_len(d) ==
    CASE d.rep = "Byte" -> 1
      [] d.rep = "TwoByteInt" -> 2
      [] d.rep = "FourByteInt" -> 4
      [] d.rep = "VariByteInt" -> VariableByteInteger_encoded_len(d.v)
      [] d.rep = "UTF8" -> UTF8String_encoded_len(d.v)
      [] d.rep = "UTF8Pair" -> UTF8String_encoded_len(d.v.key) + UTF8String_encoded_len(d.v.value)
      [] d.rep = "BinaryData" -> Len(d.v) + 2

\* parse_properties, the match on the identifier: the value is decoded from
\* remain[cursor..], which runs to the end of the slice
decode_value(id, remain, cursor) ==
    Try(CASE RepOfIdentifier(id) = "Byte" ->
               (IF cursor >= Len(remain) THEN Panic ELSE Ok(remain[cursor + 1]))
          [] RepOfIdentifier(id) = "TwoByteInt" -> u16_from_be_bytes(SliceFrom(remain, cursor))
          [] RepOfIdentifier(id) = "FourByteInt" -> u32_from_be_bytes(SliceFrom(remain, cursor))
          [] RepOfIdentifier(id) = "VariByteInt" ->
               VariableByteInteger_try_from(SliceFrom(remain, cursor))
          [] RepOfIdentifier(id) = "UTF8" -> UTF8String_try_from(SliceFrom(remain, cursor))
          [] RepOfIdentifier(id) = "UTF8Pair" ->
               UTF8StringPair_try_from(SliceFrom(remain, cursor))
          [] RepOfIdentifier(id) = "BinaryData" -> BinaryData_try_from(SliceFrom(remain, cursor)),
        LAMBDA v : Ok([rep |-> RepOfIdentifier(id), v |-> v]))

\* decode.rs assignment: `if let #drep(v) = prop.value { result.f = .. }` for
\* field f of the struct acc under construction
assignment(f, acc, d) ==
    IF d.rep # data_rep(f) THEN Ok(acc)
    ELSE CASE f.ty \in {"u16", "u32", "VariableByteInteger", "Vec"} ->
                Ok([acc EXCEPT ![f.name] = Some(d.v)])
           [] f.ty = "bool" ->
                (IF d.v \in {0, 1}
                 THEN Ok([acc EXCEPT ![f.name] = Some(d.v = 1)])
                 ELSE Err("ProtocolError"))
           [] f.ty = "String" -> Ok([acc EXCEPT ![f.name] = d.v])
           [] f.ty = "HashMap" ->
                (IF ~IsSome(d.v.key) THEN Panic
                 ELSE Ok([acc EXCEPT ![f.name] =
                            HashMapInsert(@, d.v.key[1],
                               IF IsSome(d.v.value) THEN d.v.value[1] ELSE <<>>)]))
           [] f.ty = "QoS" ->
                Try(QoS_try_from(d.v), LAMBDA q : Ok([acc EXCEPT ![f.name] = Some(q)]))

\* the positions of the fields of T the derive maps to identifier id
FieldsOfIdentifier(T, id) ==
    {i \in 1..Len(Fields(T)) : PropertyIdentifier(Fields(T)[i].name) = id}

\* decode.rs generate_decode: the callback passed to parse_properties, a
\* match on the identifier with one arm per field; a repeated identifier
\* overwrites
decode_fields(T, acc, id, d) ==
    IF FieldsOfIdentifier(T, id) = {} THEN Err("Message")
    ELSE assignment(Fields(T)[CHOOSE i \in FieldsOfIdentifier(T, id) : TRUE], acc, d)

\* parse_properties, the loop `while cursor < length` over remain
RECURSIVE parse_loop(_, _, _, _, _)
parse_loop(T, remain, length, cursor, acc) ==
    IF cursor >= length THEN Ok([cursor |-> cursor, props |-> acc])
    ELSE IF cursor >= Len(remain) THEN Panic
    ELSE IF remain[cursor + 1] \notin PropertyIdentifiers THEN Err("Message")
    ELSE Try(decode_value(remain[cursor + 1], remain, cursor + 1), LAMBDA d :
             Try(decode_fields(T, acc, remain[cursor + 1], d), LAMBDA a :
                 parse_loop(T, remain, length,
                            cursor + 1 + DataRepresentation_encoded_len(d), a)))

\* parse_properties with the derived callback of struct T: Ok carries the
\* number of bytes read and the struct filled so far
parse_properties(T, src) ==
    IF Len(src) = 0 THEN Ok([bytes_read |-> 0, props |-> PropertiesDefault(T)])
    ELSE Try(VariableByteInteger_try_from(src), LAMBDA length :
             IF VariableByteInteger_encoded_len(length) > Len(src) THEN Panic
             ELSE Try(parse_loop(T, SliceFrom(src, VariableByteInteger_encoded_len(length)),
                                 length, 0, PropertiesDefault(T)),
                      LAMBDA r : Ok([bytes_read |-> VariableByteInteger_encoded_len(length) + r.cursor,
                                     props |-> r.props])))

\* decode.rs generate_decode: Decodeable::decode of struct T; value is the
\* Option<T>, None when at most one byte was read
Properties_decode(T, src) ==
    Try(parse_properties(T, src), LAMBDA r :
        Ok([bytes_read |-> r.bytes_read,
            value |-> IF r.bytes_read \in {0, 1} THEN None ELSE Some(r.props)]))

----------------------------------------------------------------------------
(* packet/puback.rs, pubrec.rs, pubrel.rs, pubcomp.rs                      *)
(* A packet is [packet_identifier, reason_code, properties], properties an *)
(* Option of the property struct.                                          *)

Puback_FIRST_BYTE == 64

Pubrec_FIRST_BYTE == 80

Pubrel_FIRST_BYTE == 98

Pubcomp_FIRST_BYTE == 112

\* Puback::validate_reason_code (Pubrec::validate_reason_code lists the same codes)
Puback_valid_reason_codes == {0, 16, 128, 131, 135, 144, 145, 151, 153}

Pubrel_valid_reason_codes_in_use == {Success, 145}

\* Pubrel::validate_reason_code (Pubcomp::validate_reason_code lists the same codes)
Pubrel_valid_reason_codes == {Success, PacketIdentifierNotFound}

AckPacket(pid, rc, props) ==
    [packet_identifier |-> pid, reason_code |-> rc, properties |-> props]

Puback_new(packet_identifier, reason_code) ==
    IF reason_code \in Puback_valid_reason_codes
    THEN Ok(AckPacket(packet_identifier, reason_code, None))
    ELSE Err("ProtocolError")

Pubrec_new(packet_identifier, reason_code) ==
    IF reason_code \in Puback_valid_reason_codes
    THEN Ok(AckPacket(packet_identifier, reason_code, None))
    ELSE Err("ProtocolError")

Pubrel_new(packet_identifier, reason_code) ==
    IF reason_code \in Pubrel_valid_reason_codes
    THEN Ok(AckPacket(packet_identifier, reason_code, None))
    ELSE Err("ProtocolError")

Pubcomp_new(packet_identifier, reason_code) ==
    IF reason_code \in Pubrel_valid_reason_codes
    THEN Ok(AckPacket(packet_identifier, reason_code, None))
    ELSE Err("ProtocolError")

\* `Some(props) => props.into(), None => push(0)`
properties_or_zero(T, props, io) ==
    IF IsSome(props) THEN Properties_into(T, props[1], io) ELSE <<0>>

\* From<Puback> for Vec<u8>: reason code and properties only when needed
Puback_into(p, io) ==
    calculate_and_insert_length(
        << Puback_FIRST_BYTE >> \o push_be_u16(p.packet_identifier) \o
        (IF p.reason_code # Success \/ IsSome(p.properties)
         THEN << p.reason_code >> \o properties_or_zero("PubackProperties", p.properties, io)
         ELSE <<>>))

\* From<Pubrec>, From<Pubrel>, From<Pubcomp> for Vec<u8>: always a reason code
\* and a property block
ack_into(first_byte, T, p, io) ==
    calculate_and_insert_length(
        << first_byte >> \o push_be_u16(p.packet_identifier) \o << p.reason_code >> \o
        properties_or_zero(T, p.properties, io))

Pubrec_into(p, io) == ack_into(Pubrec_FIRST_BYTE, "PubrecProperties", p, io)

Pubrel_into(p, io) == ack_into(Pubrel_FIRST_BYTE, "PubrelProperties", p, io)

Pubcomp_into(p, io) == ack_into(Pubcomp_FIRST_BYTE, "PubcompProperties", p, io)

\* the packet identifier at src[cursor..]
packet_identifier_at(src, cursor) ==
    IF cursor > Len(src) THEN Panic ELSE u16_from_be_bytes(SliceFrom(src, cursor))

\* TryFrom<&[u8]> for Puback, after the remaining length rl and the packet
\* identifier pid at cursor: the properties are decoded before Puback::new
\* validates the reason code
Puback_reason_and_properties(src, rl, pid, cursor) ==
    IF rl = 2 THEN Puback_new(pid, Success)
    ELSE IF cursor >= Len(src) THEN Panic
    ELSE Try(ReasonCode_try_from(src[cursor + 1]), LAMBDA rc :
             Try(Properties_decode("PubackProperties", SliceFrom(src, cursor + 1)), LAMBDA pr :
                 Try(Puback_new(pid, rc), LAMBDA p : Ok(AckPacket(pid, rc, pr.value)))))

\* TryFrom<&[u8]> for Puback
Puback_try_from(src) ==
    IF Len(src) = 0 THEN Panic
    ELSE IF src[1] # Puback_FIRST_BYTE THEN Err("MalformedPacket")
    ELSE Try(remaining_length(SliceFrom(src, 1)), LAMBDA rl :
             Try(packet_identifier_at(src, 1 + VariableByteInteger_encoded_len(rl)), LAMBDA pid :
                 Puback_reason_and_properties(src, rl, pid,
                                              3 + VariableByteInteger_encoded_len(rl))))

\* TryFrom<&[u8]> for Pubrec, Pubrel, Pubcomp, after the packet identifier
\* pid at cursor: new() validates the reason code before the properties are
\* decoded
ack_reason_and_properties(valid, T, src, pid, cursor) ==
    IF cursor >= Len(src) THEN Panic
    ELSE Try(ReasonCode_try_from(src[cursor + 1]), LAMBDA rc :
             IF rc \notin valid THEN Err("ProtocolError")
             ELSE Try(Properties_decode(T, SliceFrom(src, cursor + 1)), LAMBDA pr :
                      Ok(AckPacket(pid, rc, pr.value))))

\* TryFrom<&[u8]> for Pubrec, Pubrel, Pubcomp
ack_try_from(first_byte, valid, T, src) ==
    IF Len(src) = 0 THEN Panic
    ELSE IF src[1] # first_byte THEN Err("MalformedPacket")
    ELSE Try(remaining_length(SliceFrom(src, 1)), LAMBDA rl :
             Try(packet_identifier_at(src, 1 + VariableByteInteger_encoded_len(rl)), LAMBDA pid :
                 ack_reason_and_properties(valid, T, src, pid,
                                           3 + VariableByteInteger_encoded_len(rl))))

Pubrec_try_from(src) ==
    ack_try_from(Pubrec_FIRST_BYTE, Puback_valid_reason_codes, "PubrecProperties", src)

Pubrel_try_from(src) ==
    ack_try_from(Pubrel_FIRST_BYTE, Pubrel_valid_reason_codes, "PubrelProperties", src)

Pubcomp_try_from(src) ==
    ack_try_from(Pubcomp_FIRST_BYTE, Pubrel_valid_reason_codes, "PubcompProperties", src)

----------------------------------------------------------------------------
(* packet/publish.rs                                                       *)
(* A Publish is [dup, qos_level, retain, topic_name, packet_identifier,    *)
(* properties, payload]; packet_identifier and properties are Options.     *)

Publish_PACKET_TYPE == 48

BoolToByte(b) == IF b THEN 1 ELSE 0

\* the x & mask of Rust for a mask made of the bits in bits
BitAnd(x, bits) == (x \div Pow2(bits[1])) % Pow2(bits[2] - bits[1] + 1)

\* From<Publish> for Vec<u8>
Publish_into(p, io) ==
    calculate_and_insert_length(
        << Publish_PACKET_TYPE + 8 * BoolToByte(p.dup) + 2 * p.qos_level + BoolToByte(p.retain) >>
        \o UTF8String_into(Some(p.topic_name))
        \o (IF p.qos_level > 0
            THEN push_be_u16(IF IsSome(p.packet_identifier) THEN p.packet_identifier[1] ELSE 0)
            ELSE <<>>)
        \o properties_or_zero("PublishProperties", p.properties, io)
        \o p.payload)

\* TryFrom<&[u8]> for Publish, the end: the payload is what the remaining
\* length leaves after the topic name, the packet identifier and the properties
Publish_payload(src, qos, topic, pid, pr, cursor, payload_len) ==
    IF payload_len < 0 \/ cursor + payload_len > Len(src) THEN Panic
    ELSE Ok([dup |-> FALSE, qos_level |-> qos, retain |-> FALSE,
             topic_name |-> IF IsSome(topic) THEN topic[1] ELSE <<>>,
             packet_identifier |-> pid, properties |-> pr.value,
             payload |-> Slice(src, cursor, cursor + payload_len)])

Publish_properties(src, qos, topic, pid, cursor, payload_len) ==
    IF cursor > Len(src) THEN Panic
    ELSE Try(Properties_decode("PublishProperties", SliceFrom(src, cursor)), LAMBDA pr :
             Publish_payload(src, qos, topic, pid, pr,
                             cursor + pr.bytes_read, payload_len - pr.bytes_read))

\* the packet identifier is read from the slice src[cursor..cursor + 2]
Publish_packet_identifier(src, qos, topic, cursor, payload_len) ==
    IF qos = 0 THEN Publish_properties(src, qos, topic, None, cursor, payload_len)
    ELSE IF cursor + 2 > Len(src) THEN Panic
    ELSE Try(u16_from_be_bytes(Slice(src, cursor, cursor + 2)), LAMBDA pid :
             IF payload_len < 2 /\ build = "debug" THEN Panic
             ELSE Publish_properties(src, qos, topic, Some(pid), cursor + 2, payload_len - 2))

Publish_topic_name(src, qos, rl, cursor) ==
    IF cursor > Len(src) THEN Panic
    ELSE Try(UTF8String_try_from(SliceFrom(src, cursor)), LAMBDA topic :
             IF rl < UTF8String_encoded_len(topic) /\ build = "debug" THEN Panic
             ELSE Publish_packet_identifier(src, qos, topic,
                                            cursor + UTF8String_encoded_len(topic),
                                            rl - UTF8String_encoded_len(topic)))

\* TryFrom<&[u8]> for Publish.  `1 == src[0] | MASK` is never true for a
\* first byte with the packet type bits: dup and retain are always false.
Publish_try_from(src) ==
    IF Len(src) = 0 THEN Panic
    ELSE IF BitAnd(src[1], <<4, 5>>) # 3 THEN Err("MalformedPacket")
    ELSE Try(QoS_try_from(BitAnd(src[1], <<1, 2>>)), LAMBDA qos :
             Try(remaining_length(SliceFrom(src, 1)), LAMBDA rl :
                 Publish_topic_name(src, qos, rl, 1 + VariableByteInteger_encoded_len(rl))))

----------------------------------------------------------------------------
(* packet/connack.rs: a Connack is [session_present, reason_code, properties] *)

Connack_FIRST_BYTE == 32

\* From<Connack> for Vec<u8>
Connack_into(p, io) ==
    calculate_and_insert_length(
        << Connack_FIRST_BYTE, BoolToByte(p.session_present), p.reason_code >>
        \o properties_or_zero("ConnackProperties", p.properties, io))

Connack_variable_header(src, index) ==
    IF index + 1 >= Len(src) THEN Panic
    ELSE Try(ReasonCode_try_from(src[index + 2]), LAMBDA rc :
             Try(Properties_decode("ConnackProperties", SliceFrom(src, index + 2)), LAMBDA pr :
                 Ok([session_present |-> src[index + 1] # 0, reason_code |-> rc,
                     properties |-> pr.value])))

\* TryFrom<&[u8]> for Connack: the remaining length is read from src[1..5]
\* and not compared with the length of the slice
Connack_try_from(src) ==
    IF Len(src) = 0 THEN Panic
    ELSE IF src[1] # Connack_FIRST_BYTE THEN Err("MalformedPacket")
    ELSE IF Len(src) < 5 THEN Panic
    ELSE Try(VariableByteInteger_try_from(Slice(src, 1, 5)), LAMBDA rl :
             Connack_variable_header(src, VariableByteInteger_encoded_len(rl) + 1))

----------------------------------------------------------------------------
(* packet/disconnect.rs: a Disconnect is [reason_code, properties]         *)

Disconnect_FIRST_BYTE == 224

\* From<Disconnect> for Vec<u8>
Disconnect_into(p, io) ==
    calculate_and_insert_length(
        << Disconnect_FIRST_BYTE, p.reason_code >>
        \o properties_or_zero("DisconnectProperties", p.properties, io))

Disconnect_reason_and_properties(src, cursor) ==
    IF cursor >= Len(src) THEN Panic
    ELSE Try(ReasonCode_try_from(src[cursor + 1]), LAMBDA rc :
             Try(Properties_decode("DisconnectProperties", SliceFrom(src, cursor + 1)), LAMBDA pr :
                 Ok([reason_code |-> rc, properties |-> pr.value])))

\* TryFrom<&[u8]> for Disconnect
Disconnect_try_from(src) ==
    IF Len(src) = 0 THEN Panic
    ELSE IF src[1] # Disconnect_FIRST_BYTE THEN Err("MalformedPacket")
    ELSE Try(remaining_length(SliceFrom(src, 1)), LAMBDA rl :
             IF rl = 0 THEN Ok([reason_code |-> Success, properties |-> None])
             ELSE Disconnect_reason_and_properties(src, 1 + VariableByteInteger_encoded_len(rl)))

----------------------------------------------------------------------------
(* packet/connect.rs                                                       *)
(* A Connect is [client_id, protocol_level, keep_alive, clean_start,       *)
(* properties, will, username, password]; a LastWill is [qos, retain,      *)
(* properties, will_topic, will_payload].                                  *)

Connect_FIRST_BYTE == 16

PROTO_NAME == <<0, 4, 77, 81, 84, 84>>

PROTO_LEVEL == 5

\* impl Default for Connect
Connect_default ==
    [client_id |-> None, protocol_level |-> PROTO_LEVEL, keep_alive |-> 0,
     clean_start |-> FALSE, properties |-> None, will |-> None,
     username |-> None, password |-> None]

\* ConnectFlags::build
ConnectFlags_build(p) ==
    [clean_start |-> p.clean_start,
     will_flag |-> IsSome(p.will),
     will_qos |-> IF IsSome(p.will) THEN Some(p.will[1].qos) ELSE None,
     will_retain |-> IF IsSome(p.will) THEN p.will[1].retain ELSE FALSE,
     password_flag |-> IsSome(p.username) /\ IsSome(p.password),
     username_flag |-> IsSome(p.username)]

\* From<ConnectFlags> for u8 with the will QoS shifted by two bits
ConnectFlags_into_shifts_qos_by_two(flags) ==
    2 * BoolToByte(flags.clean_start) + 4 * BoolToByte(flags.will_flag)
    + 32 * BoolToByte(flags.will_retain) + 128 * BoolToByte(flags.username_flag)
    + 64 * BoolToByte(flags.password_flag)
    + (IF IsSome(flags.will_qos) THEN 4 * flags.will_qos[1] ELSE 0)

\* From<ConnectFlags> for u8
ConnectFlags_into(flags) ==
    2 * BoolToByte(flags.clean_start) + 4 * BoolToByte(flags.will_flag)
    + 32 * BoolToByte(flags.will_retain) + 128 * BoolToByte(flags.username_flag)
    + 64 * BoolToByte(flags.password_flag)
    + (IF IsSome(flags.will_qos) THEN 8 * flags.will_qos[1] ELSE 0)

\* TryFrom<&u8> for ConnectFlags accepting a will QoS without a will
ConnectFlags_try_from_ignores_qos_without_will(b) ==
    IF Bit(b, 0) # 0 THEN Err("MalformedPacket")
    ELSE IF Bit(b, 2) = 1 /\ BitAnd(b, <<3, 4>>) = 3 THEN Err("MalformedPacket")
    ELSE Ok([clean_start |-> Bit(b, 1) = 1,
             will_flag |-> Bit(b, 2) = 1,
             will_qos |-> IF Bit(b, 2) = 1 THEN Some(BitAnd(b, <<3, 4>>)) ELSE None,
             will_retain |-> Bit(b, 5) = 1,
             password_flag |-> Bit(b, 6) = 1,
             username_flag |-> Bit(b, 7) = 1])

\* TryFrom<&u8> for ConnectFlags
ConnectFlags_try_from(b) ==
    IF Bit(b, 0) # 0 THEN Err("MalformedPacket")
    ELSE IF Bit(b, 2) = 1 /\ BitAnd(b, <<3, 4>>) = 3 THEN Err("MalformedPacket")
    ELSE IF Bit(b, 2) = 0 /\ BitAnd(b, <<3, 4>>) # 0 THEN Err("MalformedPacket")
    ELSE Ok([clean_start |-> Bit(b, 1) = 1,
             will_flag |-> Bit(b, 2) = 1,
             will_qos |-> IF Bit(b, 2) = 1 THEN Some(BitAnd(b, <<3, 4>>)) ELSE None,
             will_retain |-> Bit(b, 5) = 1,
             password_flag |-> Bit(b, 6) = 1,
             username_flag |-> Bit(b, 7) = 1])

\* Into<Vec<u8>> for Connect, the will: properties, topic, payload
LastWill_into(will, io) ==
    IF IsSome(will)
    THEN properties_or_zero("WillProperties", will[1].properties, io)
         \o UTF8String_into(Some(will[1].will_topic))
         \o BinaryData_into(will[1].will_payload)
    ELSE <<>>

\* Into<Vec<u8>> for Connect writing no client id when there is none
Connect_into_omits_absent_client_id(p, io) ==
    calculate_and_insert_length(
        << Connect_FIRST_BYTE >> \o PROTO_NAME
        \o << p.protocol_level, ConnectFlags_into(ConnectFlags_build(p)) >>
        \o push_be_u16(p.keep_alive)
        \o properties_or_zero("ConnectProperties", p.properties, io)
        \o (IF IsSome(p.client_id) THEN UTF8String_into(p.client_id) ELSE <<>>)
        \o LastWill_into(p.will, io)
        \o (IF IsSome(p.username) THEN UTF8String_into(p.username) ELSE <<>>)
        \o (IF IsSome(p.password) THEN BinaryData_into(p.password[1]) ELSE <<>>))

\* Into<Vec<u8>> for Connect.  The password is appended whenever it is Some,
\* whatever the flags say.
Connect_into(p, io) ==
    calculate_and_insert_length(
        << Connect_FIRST_BYTE >> \o PROTO_NAME
        \o << p.protocol_level, ConnectFlags_into(ConnectFlags_build(p)) >>
        \o push_be_u16(p.keep_alive)
        \o properties_or_zero("ConnectProperties", p.properties, io)
        \o UTF8String_into(p.client_id)
        \o LastWill_into(p.will, io)
        \o (IF IsSome(p.username) THEN UTF8String_into(p.username) ELSE <<>>)
        \o (IF IsSome(p.password) THEN BinaryData_into(p.password[1]) ELSE <<>>))

\* validate_protocol
validate_protocol(name, level) ==
    IF name # PROTO_NAME \/ level # PROTO_LEVEL THEN Err("MalformedPacket") ELSE Ok(TRUE)

\* TryFrom<&[u8]> for Connect, the password
Connect_password(src, flags, acc, cursor) ==
    IF ~flags.password_flag THEN Ok(acc)
    ELSE IF cursor > Len(src) THEN Panic
    ELSE Try(BinaryData_try_from(SliceFrom(src, cursor)), LAMBDA pwd :
             Ok([acc EXCEPT !.password = Some(pwd)]))

\* TryFrom<&[u8]> for Connect, the user name
Connect_username(src, flags, acc, cursor) ==
    IF ~flags.username_flag THEN Connect_password(src, flags, acc, cursor)
    ELSE IF cursor > Len(src) THEN Panic
    ELSE Try(UTF8String_try_from(SliceFrom(src, cursor)), LAMBDA username :
             Connect_password(src, flags, [acc EXCEPT !.username = username],
                              cursor + UTF8String_encoded_len(username)))

\* TryFrom<&[u8]> for Connect, the will payload after properties wp and topic
Connect_will_payload(src, flags, acc, wp, topic, cursor) ==
    Try(BinaryData_try_from(SliceFrom(src, cursor)), LAMBDA payload :
        Connect_username(src, flags,
            [acc EXCEPT !.will = Some([qos |-> IF IsSome(flags.will_qos) THEN flags.will_qos[1] ELSE 1,
                                       retain |-> flags.will_retain,
                                       properties |-> wp.value,
                                       will_topic |-> IF IsSome(topic) THEN topic[1] ELSE <<>>,
                                       will_payload |-> payload])],
            cursor + Len(payload) + 2))

Connect_will_topic(src, flags, acc, wp, cursor) ==
    IF cursor > Len(src) THEN Panic
    ELSE Try(UTF8String_try_from(SliceFrom(src, cursor)), LAMBDA topic :
             Connect_will_payload(src, flags, acc, wp, topic,
                                  cursor + UTF8String_encoded_len(topic)))

\* TryFrom<&[u8]> for Connect, the will
Connect_will(src, flags, acc, cursor) ==
    IF ~flags.will_flag THEN Connect_username(src, flags, acc, cursor)
    ELSE Try(Properties_decode("WillProperties", SliceFrom(src, cursor)), LAMBDA wp :
             Connect_will_topic(src, flags, acc, wp, cursor + wp.bytes_read))

\* TryFrom<&[u8]> for Connect, the client identifier: always Some, even when empty
Connect_client_id(src, flags, acc, cursor) ==
    IF cursor > Len(src) THEN Panic
    ELSE Try(UTF8String_try_from(SliceFrom(src, cursor)), LAMBDA client_id :
             Connect_will(src, flags, [acc EXCEPT !.client_id = client_id],
                          cursor + UTF8String_encoded_len(client_id)))

\* TryFrom<&[u8]> for Connect, keep alive and properties
Connect_properties(src, flags, cursor) ==
    IF cursor + 2 > Len(src) THEN Panic
    ELSE Try(Properties_decode("ConnectProperties", SliceFrom(src, cursor + 2)), LAMBDA pr :
             Connect_client_id(src, flags,
                 [Connect_default EXCEPT !.clean_start = flags.clean_start,
                                         !.keep_alive = src[cursor + 1] * 256 + src[cursor + 2],
                                         !.properties = pr.value],
                 cursor + 2 + pr.bytes_read))

\* TryFrom<&[u8]> for Connect, protocol name, level and flags at cursor
Connect_variable_header(src, cursor) ==
    IF cursor + 6 >= Len(src) THEN Panic
    ELSE Try(validate_protocol(Slice(src, cursor, cursor + 6), src[cursor + 7]), LAMBDA valid :
             IF cursor + 7 >= Len(src) THEN Panic
             ELSE Try(ConnectFlags_try_from(src[cursor + 8]), LAMBDA flags :
                      Connect_properties(src, flags, cursor + 8)))

\* TryFrom<&[u8]> for Connect
Connect_try_from(src) ==
    IF Len(src) = 0 THEN Panic
    ELSE IF src[1] # Connect_FIRST_BYTE THEN Err("MalformedPacket")
    ELSE Try(remaining_length(SliceFrom(src, 1)), LAMBDA rl :
             IF 1 + VariableByteInteger_encoded_len(rl) > Len(src) THEN Panic
             ELSE Connect_variable_header(src, 1 + VariableByteInteger_encoded_len(rl)))

----------------------------------------------------------------------------
(* packet/subscribe.rs, suback.rs, unsub.rs, unsuback.rs, auth.rs: the     *)
(* encoders.  A Subscribe is [packet_identifier, properties, topic_filter],*)
(* a TopicFilter [filter, maximum_qos, no_local, retain_as_published,      *)
(* retain_handling]; Suback and Unsuback are [packet_identifier,           *)
(* properties, reason_codes]; an Auth is [reason_code, properties].        *)

Subscribe_FIRST_BYTE == 130

Suback_FIRST_BYTE == 144

Unsubscribe_FIRST_BYTE == 162

Unsuback_FIRST_BYTE == 176

Auth_FIRST_BYTE == 240

\* TryFrom<&[u8]> for Suback, the loop `while cursor < cursor_stop`
RECURSIVE Suback_reason_codes(_, _, _, _)
Suback_reason_codes(src, cursor, cursor_stop, acc) ==
    IF cursor >= cursor_stop THEN Ok(acc)
    ELSE IF cursor >= Len(src) THEN Panic
    ELSE Try(ReasonCode_try_from(src[cursor + 1]), LAMBDA rc :
             Suback_reason_codes(src, cursor + 1, cursor_stop, Append(acc, rc)))

\* TryFrom<&[u8]> for Suback, after the remaining length rl, with el its
\* encoded length
Suback_variable_header(src, rl, el) ==
    Try(packet_identifier_at(src, 1 + el), LAMBDA pid :
        Try(Properties_decode("SubackProperties", SliceFrom(src, 3 + el)), LAMBDA pr :
            Try(Suback_reason_codes(src, 3 + el + pr.bytes_read, 1 + el + rl, <<>>),
                LAMBDA rcs : Ok([packet_identifier |-> pid, properties |-> pr.value,
                                 reason_codes |-> rcs]))))

\* TryFrom<&[u8]> for Suback
Suback_try_from(src) ==
    IF Len(src) = 0 THEN Panic
    ELSE IF src[1] # Suback_FIRST_BYTE THEN Err("MalformedPacket")
    ELSE Try(remaining_length(SliceFrom(src, 1)), LAMBDA rl :
             Suback_variable_header(src, rl, VariableByteInteger_encoded_len(rl)))

\* From<TopicFilter> for Vec<u8>: the filter and the options byte
TopicFilter_into(f) ==
    UTF8String_into(Some(f.filter))
    \o << f.maximum_qos + 4 * BoolToByte(f.no_local) + 8 * BoolToByte(f.retain_as_published)
          + 16 * f.retain_handling >>

\* TryFrom<&[u8]> for TopicFilter, from the options byte on: bits 0-1 go
\* through QoS::try_from, bits 2 and 3 are the two flags, bits 4-5 the retain
\* handling; bits 6-7 are not looked at
TopicFilter_from_options(filter, options) ==
    Try(QoS_try_from(BitAnd(options, <<0, 1>>)), LAMBDA maximum_qos :
        IF BitAnd(options, <<4, 5>>) = 3 THEN Err("ProtocolError")
        ELSE Ok([filter |-> filter, maximum_qos |-> maximum_qos,
                 no_local |-> Bit(options, 2) = 1,
                 retain_as_published |-> Bit(options, 3) = 1,
                 retain_handling |-> BitAnd(options, <<4, 5>>)]))

\* TryFrom<&[u8]> for TopicFilter: the filter string, then the options byte
\* at src[filter_decoded.encoded_len()]
TopicFilter_try_from(src) ==
    Try(UTF8String_try_from(src), LAMBDA filter_decoded :
        IF ~IsSome(filter_decoded) THEN Err("ProtocolError")
        ELSE IF UTF8String_encoded_len(filter_decoded) >= Len(src) THEN Panic
        ELSE TopicFilter_from_options(filter_decoded[1],
                                      src[UTF8String_encoded_len(filter_decoded) + 1]))

RECURSIVE TopicFilters_into(_)
TopicFilters_into(fs) ==
    IF fs = <<>> THEN <<>> ELSE TopicFilter_into(Head(fs)) \o TopicFilters_into(Tail(fs))

RECURSIVE Strings_into(_)
Strings_into(fs) ==
    IF fs = <<>> THEN <<>> ELSE UTF8String_into(Some(Head(fs))) \o Strings_into(Tail(fs))

\* From<Subscribe> for Vec<u8>
Subscribe_into(p, io) ==
    calculate_and_insert_length(
        << Subscribe_FIRST_BYTE >> \o push_be_u16(p.packet_identifier)
        \o properties_or_zero("SubscribeProperties", p.properties, io)
        \o TopicFilters_into(p.topic_filter))

\* From<Suback> for Vec<u8>
Suback_into(p, io) ==
    calculate_and_insert_length(
        << Suback_FIRST_BYTE >> \o push_be_u16(p.packet_identifier)
        \o properties_or_zero("SubackProperties", p.properties, io)
        \o p.reason_codes)

\* From<Unsubscribe> for Vec<u8>
Unsubscribe_into(p, io) ==
    calculate_and_insert_length(
        << Unsubscribe_FIRST_BYTE >> \o push_be_u16(p.packet_identifier)
        \o properties_or_zero("UnsubscribeProperties", p.properties, io)
        \o Strings_into(p.topic_filter))

\* From<Unsuback> for Vec<u8>
Unsuback_into(p, io) ==
    calculate_and_insert_length(
        << Unsuback_FIRST_BYTE >> \o push_be_u16(p.packet_identifier)
        \o properties_or_zero("UnsubackProperties", p.properties, io)
        \o p.reason_codes)

\* From<Auth> for Vec<u8>: reason code and properties only when needed
Auth_into(p, io) ==
    calculate_and_insert_length(
        << Auth_FIRST_BYTE >>
        \o (IF p.reason_code # Success \/ IsSome(p.properties)
            THEN << p.reason_code >> \o properties_or_zero("AuthProperties", p.properties, io)
            ELSE <<>>))

----------------------------------------------------------------------------
(* The inputs the operations are applied to                                *)

\* the largest number of fields set in a sampled property struct (besides
\* the struct with every field set)
MaxFieldsSet == 2

\* the number of different sample values per field type
NumVariants == 2

Builds == {"debug", "release"}

\* the lengths at which the variable byte integer grows by a byte
Boundaries == {127, 128, 16383, 16384}

\* "because", "debug", "true", "k"
Str_because == <<98, 101, 99, 97, 117, 115, 101>>

Str_debug == <<100, 101, 98, 117, 103>>

Str_true == <<116, 114, 117, 101>>

Str_k == <<107>>

VbiSamples ==
    (0..40) \cup {n + d : n \in {128, 16384, 2097152}, d \in {-2, -1, 0, 1}}
            \cup {268435454, 268435455}

PacketIdentifiers == {123, 8123, 65535}

\* a sample value of a field of type ty, variant v
SampleValue(ty, v) ==
    CASE ty = "u16" -> Some(IF v % 2 = 1 THEN 135 ELSE 65535)
      [] ty = "u32" -> Some(IF v % 2 = 1 THEN 180 ELSE 305419896)
      [] ty = "bool" -> Some(v % 2 = 1)
      [] ty = "QoS" -> Some(v % 3)
      [] ty = "String" -> Some(IF v % 2 = 1 THEN Str_because ELSE <<>>)
      [] ty = "Vec" -> Some(IF v % 2 = 1 THEN <<1, 2, 3>> ELSE <<>>)
      [] ty = "VariableByteInteger" -> Some(IF v % 2 = 1 THEN 5 ELSE 16384)
      [] ty = "HashMap" -> (IF v % 2 = 1 THEN {<<Str_debug, Str_true>>}
                            ELSE {<<Str_debug, Str_true>>, <<Str_k, <<>> >>})

FieldType(T, n) ==
    LET fs == Fields(T) IN fs[CHOOSE i \in 1..Len(fs) : fs[i].name = n].ty

\* the struct T with the fields in S set to their sample values
PropsWith(T, S, v) ==
    [n \in FieldNames(T) |-> IF n \in S THEN SampleValue(FieldType(T, n), v)
                             ELSE IF n = "user_property" THEN {} ELSE None]

\* the struct T with one user property whose value is n bytes long
PropsFill(T, n) ==
    [PropertiesDefault(T) EXCEPT !["user_property"] = {<<Str_k, Repeat(97, n)>>}]

\* the user property value lengths for which a packet whose other parts take
\* base bytes has a remaining length on a boundary
FillLens(base) ==
    {n \in {b - base - 6 - l : b \in Boundaries, l \in 1..3} :
        n >= 0 /\ \E l \in 1..3 : /\ VariableByteInteger_encoded_len(6 + n) = l
                                   /\ base + l + 6 + n \in Boundaries}

\* the subsets of S with at most k elements
RECURSIVE SubsetsUpTo(_, _)
SubsetsUpTo(S, k) ==
    IF k = 0 THEN {{}}
    ELSE LET prev == SubsetsUpTo(S, k - 1) IN prev \cup {X \cup {e} : X \in prev, e \in S}

PropsSamples(T) ==
    {PropsWith(T, S, v) : S \in SubsetsUpTo(FieldNames(T), MaxFieldsSet) \cup {FieldNames(T)},
                          v \in 1..NumVariants}
    \cup {PropsFill(T, b - 6) : b \in Boundaries}

\* every enumeration of the finite set S
Orders(S) ==
    {o \in [1..Cardinality(S) -> S] : \A e \in S : \E i \in 1..Cardinality(S) : o[i] = e}

OptionUserProperty(props) == IF IsSome(props) THEN props[1].user_property ELSE {}

AckKinds == {"Puback", "Pubrec", "Pubrel", "Pubcomp"}

\* the packet types with an encoder
PacketKinds ==
    AckKinds \cup {"Connect", "Connack", "Publish", "Subscribe", "Suback", "Unsubscribe",
                   "Unsuback", "Disconnect", "Auth"}

\* the property struct of a packet type
PropertiesOf(k) ==
    CASE k = "Puback" -> "PubackProperties" [] k = "Pubrec" -> "PubrecProperties"
      [] k = "Pubrel" -> "PubrelProperties" [] k = "Pubcomp" -> "PubcompProperties"
      [] k = "Connect" -> "ConnectProperties" [] k = "Connack" -> "ConnackProperties"
      [] k = "Publish" -> "PublishProperties" [] k = "Subscribe" -> "SubscribeProperties"
      [] k = "Suback" -> "SubackProperties" [] k = "Unsubscribe" -> "UnsubscribeProperties"
      [] k = "Unsuback" -> "UnsubackProperties" [] k = "Disconnect" -> "DisconnectProperties"
      [] k = "Auth" -> "AuthProperties"

\* Into<Vec<u8>> of the packet type k
Packet_into(k, p, io) ==
    CASE k = "Puback" -> Puback_into(p, io) [] k = "Pubrec" -> Pubrec_into(p, io)
      [] k = "Pubrel" -> Pubrel_into(p, io) [] k = "Pubcomp" -> Pubcomp_into(p, io)
      [] k = "Connect" -> Connect_into(p, io) [] k = "Connack" -> Connack_into(p, io)
      [] k = "Publish" -> Publish_into(p, io) [] k = "Subscribe" -> Subscribe_into(p, io)
      [] k = "Suback" -> Suback_into(p, io) [] k = "Unsubscribe" -> Unsubscribe_into(p, io)
      [] k = "Unsuback" -> Unsuback_into(p, io) [] k = "Disconnect" -> Disconnect_into(p, io)
      [] k = "Auth" -> Auth_into(p, io)

\* the packet p of type k with one user property, long enough to put the
\* remaining length on a boundary
WithFill(k, p) ==
    {[p EXCEPT !.properties = Some(PropsFill(PropertiesOf(k), n))] :
        n \in FillLens(Len(Packet_into(k, [p EXCEPT !.properties =
                                               Some(PropertiesDefault(PropertiesOf(k)))], <<>>)) - 3)}

\* "some/topic/name", "a/b", "ENCTST", "myname"
Str_topic == <<115, 111, 109, 101, 47, 116, 111, 112, 105, 99, 47, 110, 97, 109, 101>>

Str_ab == <<97, 47, 98>>

Str_ENCTST == <<69, 78, 67, 84, 83, 84>>

Str_myname == <<109, 121, 110, 97, 109, 101>>

\* {"some":1,"foo":"bar"}
Payload_json ==
    <<123, 34, 115, 111, 109, 101, 34, 58, 49, 44, 34, 102, 111, 111, 34, 58, 34, 98, 97,
      114, 34, 125>>

\* acknowledgement packets: the fields are public, any reason code can be set
AckSamples(k) ==
    {AckPacket(pid, rc, pr) :
        pid \in PacketIdentifiers, rc \in ReasonCodes,
        pr \in {None} \cup {Some(PropsWith(PropertiesOf(k), S, 1)) :
                               S \in SUBSET {"reason_string", "user_property"}}}
    \cup WithFill(k, AckPacket(8123, Success, None))

PublishSamples ==
    [dup : BOOLEAN, qos_level : 0..2, retain : BOOLEAN, topic_name : {Str_topic},
     packet_identifier : {None, Some(8123)},
     properties : {None, Some(PropertiesDefault("PublishProperties")),
                   Some(PropsWith("PublishProperties",
                                  {"payload_format_indicator", "topic_alias", "user_property"}, 1))},
     payload : {<<>>, Payload_json}]
    \cup WithFill("Publish", [dup |-> FALSE, qos_level |-> 1, retain |-> FALSE,
                              topic_name |-> Str_topic, packet_identifier |-> Some(8123),
                              properties |-> None, payload |-> Payload_json])

ConnackSamples ==
    [session_present : BOOLEAN, reason_code : {Success, 135},
     properties : {None} \cup {Some(PropsWith("ConnackProperties", S, 1)) :
                                 S \in SubsetsUpTo(FieldNames("ConnackProperties"), MaxFieldsSet)}]
    \cup WithFill("Connack", [session_present |-> FALSE, reason_code |-> Success,
                              properties |-> None])

DisconnectSamples ==
    [reason_code : ReasonCodes,
     properties : {None} \cup {Some(PropsWith("DisconnectProperties", S, 1)) :
                                 S \in SUBSET FieldNames("DisconnectProperties")}]
    \cup WithFill("Disconnect", [reason_code |-> Success, properties |-> None])

LastWillSamples ==
    [qos : 0..2, retain : BOOLEAN,
     properties : {None, Some(PropsWith("WillProperties", {"will_delay_interval"}, 1))},
     will_topic : {Str_ab}, will_payload : {<<1, 2, 3>>}]

ConnectSamples ==
    [client_id : {None, Some(<<>>), Some(Str_ENCTST)}, protocol_level : {PROTO_LEVEL},
     keep_alive : {0, 60}, clean_start : BOOLEAN,
     properties : {None, Some(PropertiesDefault("ConnectProperties")),
                   Some(PropsWith("ConnectProperties",
                                  {"session_expiry_interval", "receive_maximum"}, 1))},
     will : {None} \cup {Some(w) : w \in LastWillSamples},
     username : {None, Some(Str_myname)}, password : {None, Some(<<115, 33>>)}]
    \cup WithFill("Connect", Connect_default)

TopicFilterSamples ==
    [filter : {Str_ab}, maximum_qos : 0..2, no_local : BOOLEAN,
     retain_as_published : BOOLEAN, retain_handling : 0..2]

SubscribeSamples ==
    [packet_identifier : {8123},
     properties : {None, Some(PropsWith("SubscribeProperties", {"subscription_identifier"}, 1))},
     topic_filter : {<<f>> : f \in TopicFilterSamples}
                    \cup {<<f, f>> : f \in TopicFilterSamples}]
    \cup WithFill("Subscribe", [packet_identifier |-> 8123, properties |-> None,
                                topic_filter |-> <<>>])

\* Suback and Unsuback
SubackSamples(k) ==
    [packet_identifier : {8123},
     properties : {None, Some(PropsWith(PropertiesOf(k), {"reason_string"}, 1))},
     reason_codes : {<<>>, <<0>>, <<1, 128>>}]
    \cup WithFill(k, [packet_identifier |-> 8123, properties |-> None, reason_codes |-> <<0>>])

UnsubscribeSamples ==
    [packet_identifier : {8123},
     properties : {None, Some(PropsWith("UnsubscribeProperties", {"user_property"}, 2))},
     topic_filter : {<<Str_ab>>, <<Str_ab, Str_topic>>}]
    \cup WithFill("Unsubscribe", [packet_identifier |-> 8123, properties |-> None,
                                  topic_filter |-> <<Str_ab>>])

AuthSamples ==
    [reason_code : {Success, 24, 25},
     properties : {None} \cup {Some(PropsWith("AuthProperties", S, 1)) :
                                 S \in SUBSET FieldNames("AuthProperties")}]
    \cup WithFill("Auth", [reason_code |-> Success, properties |-> None])

Samples(k) ==
    CASE k \in AckKinds -> AckSamples(k)
      [] k = "Publish" -> PublishSamples
      [] k = "Connack" -> ConnackSamples
      [] k = "Disconnect" -> DisconnectSamples
      [] k = "Connect" -> ConnectSamples
      [] k = "Subscribe" -> SubscribeSamples
      [] k \in {"Suback", "Unsuback"} -> SubackSamples(k)
      [] k = "Unsubscribe" -> UnsubscribeSamples
      [] k = "Auth" -> AuthSamples

\* "generated-123456"
Str_generated ==
    <<103, 101, 110, 101, 114, 97, 116, 101, 100, 45, 49, 50, 51, 52, 53, 54>>

\* a Connack with an assigned client identifier and a server keep alive
Connack_bytes == <<32, 25, 1, 0, 22, 18, 0, 16>> \o Str_generated \o <<19, 0, 135>>

\* the slices src[..n] of a byte sequence: the input cut short anywhere
Prefixes(s) == {SubSeq(s, 1, n) : n \in 0..Len(s)}

\* variable byte integers with more bytes than the value needs
NonMinimalVbi == {<<128, 0>>, <<129, 0>>, <<128, 128, 0>>, <<255, 255, 128, 0>>, <<128, 0, 5>>}

\* inputs of the variable byte integer decoder: up to four bytes with and
\* without continuation bit, and a fifth and sixth byte after four continued
VbiReceived ==
    LET A == {1, 127, 128, 255}
        five == {s \o <<f>> : s \in [1..4 -> {128, 255}], f \in {1, 5, 129, 133}}
    IN  UNION {[1..n -> A] : n \in 0..4} \cup five \cup {s \o <<1>> : s \in five}

\* packets and values as they arrive from the transport
Received(k) ==
    CASE k = "Connack" -> {Connack_bytes \o <<0>>, <<32, 3, 0, 0, 0>>} \cup Prefixes(Connack_bytes)
      [] k = "Connect" -> {<<16, 11, 0, 4, 77, 81, 84, 84, 5, 0, 0, 0, 0>>,
                           <<16, 13, 0, 4, 77, 81, 84, 84, 5, 0, 0, 0, 0, 0, 0>>}
                          \cup Prefixes(<<16, 19, 0, 4, 77, 81, 84, 84, 5, 2, 0, 0, 0, 0, 6>>
                                        \o Str_ENCTST)
                          \cup Prefixes(<<16, 31, 0, 4, 77, 81, 84, 84, 5, 196, 0, 60, 3, 33, 0, 32,
                                          0, 1, 97, 0, 0, 3>> \o Str_ab \o <<0, 2, 1, 2, 0, 1, 117,
                                          0, 1, 112>>)
      [] k = "Puback" -> {<<64, 2, 0, 123>>, <<64, 3, 0, 123, 16>>}
                         \cup Prefixes(<<64, 14, 0, 123, 16, 10, 31, 0, 7>> \o Str_because \o <<0>>)
      [] k \in {"Pubrec", "Pubrel", "Pubcomp"} ->
             LET first == CASE k = "Pubrec" -> Pubrec_FIRST_BYTE
                            [] k = "Pubrel" -> Pubrel_FIRST_BYTE
                            [] k = "Pubcomp" -> Pubcomp_FIRST_BYTE
             IN  Prefixes(<<first, 14, 0, 123, 0, 10, 31, 0, 7>> \o Str_because \o <<0>>)
      [] k = "Publish" -> {<<50, 6, 0, 1, 97, 0, 123, 0>>, <<48, 4, 0, 1, 97, 0>>, <<54, 3, 0, 1, 97>>}
                          \cup Prefixes(<<49, 14, 0, 1, 97, 7, 1, 1, 35, 0, 5, 11, 5, 1, 2, 3>>)
      [] k = "Disconnect" -> {<<224, 0>>, <<224, 7, 0, 5, 17, 0, 0, 0, 180>>}
                             \cup Prefixes(<<224, 17, 0, 15, 17, 0, 0, 0, 180, 31, 0, 7>>
                                           \o Str_because)
      [] k = "VariableByteInteger" -> VbiReceived \cup NonMinimalVbi
      [] k \in {"UTF8String", "BinaryData"} ->
             {<<0, 2, 195, 40>>, <<0, 0, 7>>} \cup Prefixes(<<0, 3, 97, 47, 98>>)

\* Connect packets for the connect flags: the flags depend on clean_start, the
\* will, the user name and the password only
ConnectFlagsSamples ==
    {[Connect_default EXCEPT !.clean_start = c, !.will = w, !.username = u, !.password = pw] :
        c \in BOOLEAN,
        w \in {None} \cup {Some(lw) : lw \in {l \in LastWillSamples : l.properties = None}},
        u \in {None, Some(Str_myname)},
        pw \in {None, Some(<<115, 33>>)}}

ReceivedKinds ==
    AckKinds \cup {"Connack", "Connect", "Publish", "Disconnect", "VariableByteInteger",
                   "UTF8String", "BinaryData"}

\* slices handed to u16_from_be_bytes and u32_from_be_bytes: zero to five bytes
IntegerSlices == Prefixes(<<1, 2, 3, 4, 5>>) \cup Prefixes(<<0, 255, 128, 255, 7>>)

\* received topic filters: the filter "a/b" followed by every options byte,
\* and slices that end before the options byte
ReceivedTopicFilters ==
    {UTF8String_into(Some(Str_ab)) \o <<options>> : options \in Byte}
    \cup Prefixes(UTF8String_into(Some(Str_ab)))

\* property structs that are also decoded from received property blocks
ReceivedPropertyStructs == {"DisconnectProperties", "ConnackProperties"}

\* received property blocks, length prefix first: well-formed ones and their
\* prefixes, blocks that repeat an identifier, blocks whose declared length
\* ends inside the last property, blocks followed by further bytes
ReceivedProperties(T) ==
    IF T = "DisconnectProperties"
    THEN Prefixes(<<4, 31, 0, 1, 97, 99, 99>>)
         \cup {<<8, 31, 0, 1, 97, 31, 0, 1, 98>>,
               <<8, 28, 0, 1, 97, 28, 0, 1, 98>>,
               <<14, 17, 0, 0, 0, 1, 17, 0, 0, 0, 2, 31, 0, 1, 97>>,
               <<9, 17, 0, 0, 0, 1, 31, 0, 1, 97>>,
               <<14, 38, 0, 1, 107, 0, 1, 97, 38, 0, 1, 107, 0, 1, 98>>,
               <<14, 38, 0, 1, 107, 0, 1, 97, 38, 0, 1, 108, 0, 1, 98>>,
               <<7, 38, 0, 1, 107, 0, 1, 97>>,
               <<1, 31, 0, 1, 97>>, <<3, 31, 0, 1, 97>>, <<5, 31, 0, 1, 97>>,
               <<1, 31, 0, 1, 97, 99>>, <<2, 17, 0, 0, 0, 1, 99>>,
               <<6, 31, 0, 1, 97, 17, 0, 0, 0, 1, 99>>}
    ELSE Prefixes(<<3, 33, 0, 10, 0>>)
         \cup {<<6, 33, 0, 1, 33, 0, 2, 0>>,
               <<4, 36, 1, 36, 2>>, <<4, 36, 1, 37, 0>>,
               <<4, 37, 1, 37, 0>>, <<1, 36, 1>>, <<1, 33, 0, 1, 0>>,
               <<5, 36, 1, 33, 0, 1, 0>>, <<3, 36, 1, 33, 0, 1, 0>>}

UserProperties(k, p) ==
    OptionUserProperty(p.properties)
    \cup (IF k = "Connect" /\ IsSome(p.will) THEN OptionUserProperty(p.will[1].properties) ELSE {})

----------------------------------------------------------------------------
(* The state machine: a value is constructed and encoded, and the bytes    *)
(* are decoded; or bytes arrive from the transport and are decoded.        *)

\* no Client has been constructed yet
NoClient ==
    /\ client = [packet_id |-> None, connected |-> FALSE]
    /\ main = "start"
    /\ ret = [op |-> "none", res |-> Ok(None)]
    /\ sent = <<>>
    /\ stream = "open"
    /\ listener = [state |-> "none", last |-> "none"]
    /\ trace = [qos |-> 0, events |-> <<>>]
    /\ calls = 0

Init ==
    /\ build \in Builds
    /\ result = None
    /\ NoClient
    /\ \/ /\ kind = "VariableByteInteger"
          /\ value \in VbiSamples
          /\ wire = <<>>
          /\ pc = "new"
       \/ /\ kind \in PropertyStructs
          /\ value \in PropsSamples(kind)
          /\ wire = <<>>
          /\ pc = "new"
       \/ /\ kind \in PacketKinds
          /\ value \in Samples(kind)
          /\ wire = <<>>
          /\ pc = "new"
       \/ /\ kind \in ReceivedKinds
          /\ value = None
          /\ wire \in Received(kind)
          /\ pc = "received"
       \/ /\ kind = "TopicFilter"
          /\ \/ /\ value \in TopicFilterSamples
                /\ wire = <<>>
                /\ pc = "new"
             \/ /\ value = None
                /\ wire \in ReceivedTopicFilters
                /\ pc = "received"
       \/ /\ kind \in {"u16", "u32"}
          /\ value = None
          /\ wire \in IntegerSlices
          /\ pc = "received"
       \/ /\ kind = "ReasonCode"
          /\ value \in ReasonCodes
          /\ wire = <<>>
          /\ pc = "new"
       \/ /\ kind \in ReceivedPropertyStructs
          /\ value = None
          /\ wire \in ReceivedProperties(kind)
          /\ pc = "received"
       \/ /\ kind = "ConnectFlags"
          /\ \/ /\ value \in ConnectFlagsSamples
                /\ wire = <<>>
                /\ pc = "new"
             \/ /\ value = None
                /\ wire \in {<<b>> : b \in Byte}
                /\ pc = "received"

\* the bytes are in wire, produced by the encoder or received
Encoded(k) == kind = k /\ pc \in {"encoded", "received"}

Answer(r) ==
    /\ result' = r
    /\ pc' = IF pc = "encoded" THEN "decoded" ELSE "answered"
    /\ UNCHANGED <<build, kind, value, wire>>
    /\ UNCHANGED cli

\* the encoder's bytes go on the wire
Emit(w) ==
    /\ wire' = w
    /\ pc' = "encoded"
    /\ UNCHANGED <<build, kind, value, result>>
    /\ UNCHANGED cli

Encode_VariableByteInteger ==
    /\ kind = "VariableByteInteger" /\ pc = "new"
    /\ Emit(VariableByteInteger_into(value))

Decode_VariableByteInteger ==
    /\ Encoded("VariableByteInteger")
    /\ Answer(VariableByteInteger_try_from(wire))

Encode_Properties ==
    /\ kind \in PropertyStructs /\ pc = "new"
    /\ \E io \in Orders(value.user_property) : Emit(Properties_into(kind, value, io))

Decode_Properties ==
    /\ kind \in PropertyStructs /\ pc \in {"encoded", "received"}
    /\ Answer(Properties_decode(kind, wire))

\* Vec::<u8>::from(filter)
Encode_TopicFilter ==
    /\ kind = "TopicFilter" /\ pc = "new"
    /\ Emit(TopicFilter_into(value))

\* TopicFilter::try_from(&src[..])
Decode_TopicFilter ==
    /\ Encoded("TopicFilter")
    /\ Answer(TopicFilter_try_from(wire))

\* u16_from_be_bytes(&src[..])
Decode_u16 ==
    /\ Encoded("u16")
    /\ Answer(u16_from_be_bytes(wire))

\* u32_from_be_bytes(&src[..])
Decode_u32 ==
    /\ Encoded("u32")
    /\ Answer(u32_from_be_bytes(wire))

Call_is_err ==
    /\ kind = "ReasonCode" /\ pc = "new"
    /\ Answer(Ok(ReasonCode_is_err(value)))

New_Ack ==
    /\ kind \in AckKinds /\ pc = "new"
    /\ result' = CASE kind = "Puback" -> Puback_new(value.packet_identifier, value.reason_code)
                   [] kind = "Pubrec" -> Pubrec_new(value.packet_identifier, value.reason_code)
                   [] kind = "Pubrel" -> Pubrel_new(value.packet_identifier, value.reason_code)
                   [] kind = "Pubcomp" -> Pubcomp_new(value.packet_identifier, value.reason_code)
    /\ pc' = "built"
    /\ UNCHANGED <<build, kind, value, wire>>
    /\ UNCHANGED cli

Encode_Puback ==
    /\ kind = "Puback" /\ pc = "new"
    /\ \E io \in Orders(UserProperties(kind, value)) : Emit(Puback_into(value, io))

Decode_Puback ==
    /\ Encoded("Puback")
    /\ Answer(Puback_try_from(wire))

Encode_Pubrec ==
    /\ kind = "Pubrec" /\ pc = "new"
    /\ \E io \in Orders(UserProperties(kind, value)) : Emit(Pubrec_into(value, io))

Decode_Pubrec ==
    /\ Encoded("Pubrec")
    /\ Answer(Pubrec_try_from(wire))

Encode_Pubrel ==
    /\ kind = "Pubrel" /\ pc = "new"
    /\ \E io \in Orders(UserProperties(kind, value)) : Emit(Pubrel_into(value, io))

Decode_Pubrel ==
    /\ Encoded("Pubrel")
    /\ Answer(Pubrel_try_from(wire))

Encode_Pubcomp ==
    /\ kind = "Pubcomp" /\ pc = "new"
    /\ \E io \in Orders(UserProperties(kind, value)) : Emit(Pubcomp_into(value, io))

Decode_Pubcomp ==
    /\ Encoded("Pubcomp")
    /\ Answer(Pubcomp_try_from(wire))

Encode_Publish ==
    /\ kind = "Publish" /\ pc = "new"
    /\ \E io \in Orders(UserProperties(kind, value)) : Emit(Publish_into(value, io))

Decode_Publish ==
    /\ Encoded("Publish")
    /\ Answer(Publish_try_from(wire))

Encode_Connack ==
    /\ kind = "Connack" /\ pc = "new"
    /\ \E io \in Orders(UserProperties(kind, value)) : Emit(Connack_into(value, io))

Decode_Connack ==
    /\ Encoded("Connack")
    /\ Answer(Connack_try_from(wire))

Encode_Disconnect ==
    /\ kind = "Disconnect" /\ pc = "new"
    /\ \E io \in Orders(UserProperties(kind, value)) : Emit(Disconnect_into(value, io))

Decode_Disconnect ==
    /\ Encoded("Disconnect")
    /\ Answer(Disconnect_try_from(wire))

Encode_Connect ==
    /\ kind = "Connect" /\ pc = "new"
    /\ \E io \in Orders(UserProperties(kind, value)) : Emit(Connect_into(value, io))

Decode_Connect ==
    /\ Encoded("Connect")
    /\ Answer(Connect_try_from(wire))

\* UTF8String::try_from(&src[..])
Decode_UTF8String ==
    /\ Encoded("UTF8String")
    /\ Answer(UTF8String_try_from(wire))

\* BinaryData::try_from(&src[..])
Decode_BinaryData ==
    /\ Encoded("BinaryData")
    /\ Answer(BinaryData_try_from(wire))

\* ConnectFlags::build(&packet).into(), the connect flags byte of a Connect
Encode_ConnectFlags ==
    /\ kind = "ConnectFlags" /\ pc = "new"
    /\ Emit(<< ConnectFlags_into(ConnectFlags_build(value)) >>)

\* ConnectFlags::try_from(&byte)
Decode_ConnectFlags ==
    /\ Encoded("ConnectFlags")
    /\ Answer(ConnectFlags_try_from(wire[1]))

Encode_Subscribe ==
    /\ kind = "Subscribe" /\ pc = "new"
    /\ \E io \in Orders(UserProperties(kind, value)) : Emit(Subscribe_into(value, io))

Encode_Suback ==
    /\ kind = "Suback" /\ pc = "new"
    /\ \E io \in Orders(UserProperties(kind, value)) : Emit(Suback_into(value, io))

Encode_Unsubscribe ==
    /\ kind = "Unsubscribe" /\ pc = "new"
    /\ \E io \in Orders(UserProperties(kind, value)) : Emit(Unsubscribe_into(value, io))

Encode_Unsuback ==
    /\ kind = "Unsuback" /\ pc = "new"
    /\ \E io \in Orders(UserProperties(kind, value)) : Emit(Unsuback_into(value, io))

Encode_Auth ==
    /\ kind = "Auth" /\ pc = "new"
    /\ \E io \in Orders(UserProperties(kind, value)) : Emit(Auth_into(value, io))

Next ==
    \/ Encode_VariableByteInteger
    \/ Decode_VariableByteInteger
    \/ Encode_Properties
    \/ Decode_Properties
    \/ New_Ack
    \/ Encode_Puback
    \/ Decode_Puback
    \/ Encode_Pubrec
    \/ Decode_Pubrec
    \/ Encode_Pubrel
    \/ Decode_Pubrel
    \/ Encode_Pubcomp
    \/ Decode_Pubcomp
    \/ Encode_Publish
    \/ Decode_Publish
    \/ Encode_Connack
    \/ Decode_Connack
    \/ Encode_Disconnect
    \/ Decode_Disconnect
    \/ Encode_Connect
    \/ Decode_Connect
    \/ Decode_UTF8String
    \/ Decode_BinaryData
    \/ Encode_ConnectFlags
    \/ Decode_ConnectFlags
    \/ Encode_Subscribe
    \/ Encode_Suback
    \/ Encode_Unsubscribe
    \/ Encode_Unsuback
    \/ Encode_Auth
    \/ Call_is_err
    \/ Decode_u16
    \/ Decode_u32
    \/ Encode_TopicFilter
    \/ Decode_TopicFilter

Spec == Init /\ [][Next]_vars

----------------------------------------------------------------------------
(* mqtt-cli/src/client.rs: struct Client over a TcpStream.  The server is  *)
(* the environment: what a read returns is chosen from ServerResponses.    *)

\* Session::packet_identifier, "a static mock for now"
Session_packet_identifier == 21

\* enum PacketType, the variants the client matches on
PUBLISH == 3

PUBACK == 4

PUBREC == 5

PUBREL == 6

PUBCOMP == 7

SUBACK == 9

DISCONNECT == 14

\* TryFrom<u8> for PacketType: `value >> 4`, 0 is undefined
PacketType_try_from(b) == IF b \div 16 = 0 THEN Err("Message") ELSE Ok(b \div 16)

\* the name a received packet goes by in trace
EventOf(bytes) ==
    IF Len(bytes) = 0 THEN "EOF"
    ELSE CASE bytes[1] \div 16 = PUBACK -> "PUBACK"
           [] bytes[1] \div 16 = PUBREC -> "PUBREC"
           [] bytes[1] \div 16 = PUBREL -> "PUBREL"
           [] bytes[1] \div 16 = PUBCOMP -> "PUBCOMP"
           [] bytes[1] \div 16 = DISCONNECT -> "DISCONNECT"
           [] OTHER -> "OTHER"

\* the number of packets received among the events of a publish call
Responses(events) ==
    Cardinality({i \in DOMAIN events : events[i] \notin {"sent PUBREL", "sent PUBCOMP"}})

\* the responses received in one publish call, and the calls on one Client
MaxResponses == 2

MaxCalls == 2

\* cmd/publish.rs PublishCmd::execute: Publish::new with the QoS of the
\* command line, and the session's packet identifier for QoS 1 and 2
ClientPublishes ==
    {[dup |-> FALSE, qos_level |-> q, retain |-> FALSE, topic_name |-> Str_ab,
      packet_identifier |-> IF q > 0 THEN Some(Session_packet_identifier) ELSE None,
      properties |-> None, payload |-> <<104, 105>>] : q \in 0..2}

\* cmd/subscribe.rs SubscribeCmd::execute: one TopicFilter::new
ClientSubscribe ==
    [packet_identifier |-> Session_packet_identifier, properties |-> None,
     topic_filter |-> << [filter |-> Str_ab, maximum_qos |-> 0, no_local |-> FALSE,
                          retain_as_published |-> FALSE, retain_handling |-> 0] >>]

\* what the server may write: acknowledgements for the client's packet
\* identifier and for another one, a Connack that accepts and one that
\* refuses, Disconnects, a Suback, a Publish, a Pingresp
ServerResponses ==
    {Packet_into(k, AckPacket(Session_packet_identifier, Success, None), <<>>) : k \in AckKinds}
    \cup {Packet_into(k, AckPacket(Session_packet_identifier + 1, Success, None), <<>>) :
            k \in {"Pubrec", "Pubrel"}}
    \cup {Connack_into([session_present |-> FALSE, reason_code |-> rc, properties |-> None], <<>>) :
            rc \in {Success, 135}}
    \cup {Disconnect_into([reason_code |-> 139, properties |-> None], <<>>)}
    \cup {<<Disconnect_FIRST_BYTE, 0>>, <<Disconnect_FIRST_BYTE, 7, 0, 5, 17, 0, 0, 0, 180>>}
    \cup {Suback_into([packet_identifier |-> Session_packet_identifier, properties |-> None,
                       reason_codes |-> <<Success>>], <<>>)}
    \cup {Publish_into(p, <<>>) : p \in {q \in ClientPublishes : q.qos_level = 0}}
    \cup {<<208, 0>>}

\* Write::write_all on the stream: it succeeds on an open stream, fails after
\* the client shut the stream down, and may do either once the server closed
SendOutcomes ==
    IF stream = "open" THEN {TRUE} ELSE IF stream = "closed" THEN {TRUE, FALSE} ELSE {FALSE}

\* TcpStream::shutdown(Both)
ShutdownOutcomes == IF stream = "open" THEN {TRUE} ELSE {TRUE, FALSE}

\* Read::read on the stream: some packet or an error while the stream is
\* open, zero bytes at the end of the stream
ReadOutcomes ==
    IF stream = "open"
    THEN {[ok |-> TRUE, bytes |-> r] : r \in ServerResponses} \cup {[ok |-> FALSE, bytes |-> <<>>]}
    ELSE {[ok |-> TRUE, bytes |-> <<>>]}

\* the caller gets r from operation op; a panic unwinds the thread, and
\* there is no Client when connect fails
Return(op, r) ==
    /\ ret' = [op |-> op, res |-> r]
    /\ main' = IF r.tag = "Panic" THEN "panicked"
               ELSE IF op = "connect" /\ IsErr(r) THEN "failed" ELSE "ready"

\* Client::connect after the stream is established: send, receive, decode
connect_result(ok, rd) ==
    IF ~ok \/ ~rd.ok THEN Err("Message")
    ELSE Try(Connack_try_from(rd.bytes), LAMBDA connack : Ok(None))

\* Client::connect: `client.connected = true` follows every decoded Connack
Client_connect ==
    /\ kind = "Client" /\ main = "start"
    /\ \E ok \in SendOutcomes, rd \in ReadOutcomes :
          /\ sent' = IF ok THEN Append(sent, Connect_into(Connect_default, <<>>)) ELSE sent
          /\ client' = [client EXCEPT !.connected = IsOk(connect_result(ok, rd))]
          /\ Return("connect", connect_result(ok, rd))
          /\ wire' = IF ok THEN rd.bytes ELSE wire
    /\ UNCHANGED <<stream, listener, trace, calls>>
    /\ UNCHANGED <<build, kind, value, result, pc>>

\* Client::publish
Client_publish ==
    /\ kind = "Client" /\ main = "ready" /\ calls < MaxCalls
    /\ \E packet \in ClientPublishes, ok \in SendOutcomes :
          /\ client' = [client EXCEPT !.packet_id = packet.packet_identifier]
          /\ sent' = IF ok THEN Append(sent, Publish_into(packet, <<>>)) ELSE sent
          /\ trace' = [qos |-> packet.qos_level, events |-> <<>>]
          /\ IF ~ok THEN Return("publish", Err("Message"))
             ELSE IF packet.qos_level = 0 THEN Return("publish", Ok(None))
             ELSE main' = "handle_pub_qos" /\ ret' = ret
    /\ calls' = calls + 1
    /\ UNCHANGED <<stream, listener>>
    /\ UNCHANGED codec

\* what an arm of handle_pub_qos does besides decoding: the packet it sends
\* and its name in trace, whether it calls handle_pub_qos again, the Result
\* it returns otherwise, and the value of self.connected
Arm(emit, name, again, r, connected) ==
    [emit |-> emit, name |-> name, again |-> again, ret |-> r, connected |-> connected]

ack_reason_code_without_comparison(pid) == Success

\* `match Some(packet_identifier) == self.packet_id`
ack_reason_code(pid) ==
    IF Some(pid) = client.packet_id THEN Success ELSE PacketIdentifierNotFound

\* the Err of the DISCONNECT arms, with the reason code in its message
ServerDisconnected(rc) == [tag |-> "Err", err |-> "Message", reason_code |-> rc]

handle_DISCONNECT(response) ==
    Try(Disconnect_try_from(response), LAMBDA disconnect :
        Ok(Arm(None, "", FALSE, ServerDisconnected(disconnect.reason_code), FALSE)))

\* the PUBACK arm prints Puback::try_from and returns Ok whatever it is
handle_PUBACK(response) ==
    IF Puback_try_from(response).tag = "Panic" THEN Panic
    ELSE Ok(Arm(None, "", FALSE, Ok(None), client.connected))

handle_PUBREC(response) ==
    Try(Pubrec_try_from(response), LAMBDA pubrec :
        Try(Pubrel_new(pubrec.packet_identifier, ack_reason_code(pubrec.packet_identifier)),
            LAMBDA pubrel : Ok(Arm(Some(Pubrel_into(pubrel, <<>>)), "sent PUBREL", TRUE,
                                   Ok(None), client.connected))))

handle_PUBREL(response) ==
    Try(Pubrel_try_from(response), LAMBDA pubrel :
        Try(Pubcomp_new(pubrel.packet_identifier, ack_reason_code(pubrel.packet_identifier)),
            LAMBDA pubcomp : Ok(Arm(Some(Pubcomp_into(pubcomp, <<>>)), "sent PUBCOMP", FALSE,
                                    Ok(None), client.connected))))

handle_PUBCOMP(response) ==
    Try(Pubcomp_try_from(response), LAMBDA pubcomp :
        Ok(Arm(None, "", FALSE, Ok(None), client.connected)))

\* Client::handle_pub_qos after receive: `PacketType::try_from(response[0])?`
\* and the match; the qos argument is not looked at
handle_response(response) ==
    IF Len(response) = 0 THEN Panic
    ELSE Try(PacketType_try_from(response[1]), LAMBDA t :
             CASE t = DISCONNECT -> handle_DISCONNECT(response)
               [] t = PUBACK -> handle_PUBACK(response)
               [] t = PUBREC -> handle_PUBREC(response)
               [] t = PUBREL -> handle_PUBREL(response)
               [] t = PUBCOMP -> handle_PUBCOMP(response)
               [] OTHER -> Err("ProtocolError"))

\* Client::handle_pub_qos up to the match: `self.receive()?`
pub_qos_result(rd) == IF ~rd.ok THEN Err("Message") ELSE handle_response(rd.bytes)

\* Client::handle_pub_qos, one call: receive, match, send the next
\* acknowledgement, and return or call itself again
Client_handle_pub_qos ==
    /\ kind = "Client" /\ main = "handle_pub_qos"
    /\ Responses(trace.events) < MaxResponses
    /\ \E rd \in ReadOutcomes, ok \in SendOutcomes :
          \E o \in {pub_qos_result(rd)} :
           /\ wire' = rd.bytes
           /\             IF ~IsOk(o)
             THEN /\ Return("publish", o)
                  /\ trace' = [trace EXCEPT !.events = Append(@, EventOf(rd.bytes))]
                  /\ UNCHANGED <<client, sent>>
             ELSE /\ client' = [client EXCEPT !.connected = o.val.connected]
                  /\ sent' = IF IsSome(o.val.emit) /\ ok
                             THEN Append(sent, o.val.emit[1]) ELSE sent
                  /\ trace' = [trace EXCEPT !.events =
                                  Append(@, EventOf(rd.bytes))
                                  \o (IF IsSome(o.val.emit) /\ ok THEN <<o.val.name>> ELSE <<>>)]
                  /\ IF IsSome(o.val.emit) /\ ~ok THEN Return("publish", Err("Message"))
                     ELSE IF o.val.again THEN main' = main /\ ret' = ret
                     ELSE Return("publish", o.val.ret)
    /\ UNCHANGED <<stream, listener, calls>>
    /\ UNCHANGED <<build, kind, value, result, pc>>

\* Client::subscribe after send: receive and the match on the packet type
subscribe_result(ok, rd) ==
    IF ~ok \/ ~rd.ok THEN Err("Message")
    ELSE IF Len(rd.bytes) = 0 THEN Panic
    ELSE Try(PacketType_try_from(rd.bytes[1]), LAMBDA t :
             CASE t = SUBACK ->
                    Try(Suback_try_from(rd.bytes), LAMBDA suback :
                        Ok(Arm(None, "", FALSE, Ok(None), client.connected)))
               [] t = DISCONNECT -> handle_DISCONNECT(rd.bytes)
               [] OTHER -> Err("ProtocolError"))

\* Client::subscribe
Client_subscribe ==
    /\ kind = "Client" /\ main = "ready" /\ calls < MaxCalls
    /\ \E ok \in SendOutcomes, rd \in ReadOutcomes :
          \E o \in {subscribe_result(ok, rd)} :
             /\ sent' = IF ok THEN Append(sent, Subscribe_into(ClientSubscribe, <<>>)) ELSE sent
             /\ client' = [client EXCEPT !.connected = IF IsOk(o) THEN o.val.connected ELSE @]
             /\ Return("subscribe", IF IsOk(o) THEN o.val.ret ELSE o)
             /\ wire' = IF ok THEN rd.bytes ELSE wire
    /\ calls' = calls + 1
    /\ UNCHANGED <<stream, listener, trace>>
    /\ UNCHANGED <<build, kind, value, result, pc>>

\* Client::listen: the thread is spawned on a clone of the stream
Client_listen ==
    /\ kind = "Client" /\ main = "ready" /\ calls < MaxCalls
    /\ listener.state = "none"
    /\ listener' = [state |-> "running", last |-> "none"]
    /\ ret' = [op |-> "listen", res |-> Ok(None)]
    /\ calls' = calls + 1
    /\ UNCHANGED <<client, main, sent, stream, trace>>
    /\ UNCHANGED codec

\* one turn of the loop of the listener thread: an Err and an empty read
\* are skipped and the loop goes on, the unwraps panic on a packet that
\* does not decode; the loop has no break.  (receive_raw reads again only
\* after a full buffer of 4096 bytes, which no response here fills.)
listen_turn(rd) ==
    IF ~rd.ok THEN [state |-> "running", last |-> "error"]
    ELSE IF Len(rd.bytes) = 0 THEN [state |-> "running", last |-> "eof"]
    ELSE IF ~IsOk(PacketType_try_from(rd.bytes[1])) THEN [state |-> "panicked", last |-> "packet"]
    ELSE IF rd.bytes[1] \div 16 # PUBLISH THEN [state |-> "running", last |-> "packet"]
    ELSE IF IsOk(Publish_try_from(rd.bytes)) THEN [state |-> "running", last |-> "packet"]
    ELSE [state |-> "panicked", last |-> "packet"]

Listener_receive ==
    /\ kind = "Client" /\ listener.state = "running"
    /\ \E rd \in ReadOutcomes : listener' = listen_turn(rd)
    /\ UNCHANGED <<client, main, ret, sent, stream, trace, calls>>
    /\ UNCHANGED codec

\* Client::disconnect: nothing when not connected; otherwise the default
\* Disconnect is sent and the stream shut down.  connected stays as it is.
Client_disconnect ==
    /\ kind = "Client" /\ main = "ready" /\ calls < MaxCalls
    /\ IF ~client.connected
       THEN /\ Return("disconnect", Ok(None))
            /\ UNCHANGED <<sent, stream>>
       ELSE \E ok \in SendOutcomes, down \in ShutdownOutcomes :
               /\ sent' = IF ok
                          THEN Append(sent, Disconnect_into([reason_code |-> Success,
                                                             properties |-> None], <<>>))
                          ELSE sent
               /\ stream' = IF ok THEN "shutdown" ELSE stream
               /\ Return("disconnect", IF ok /\ down THEN Ok(None) ELSE Err("Message"))
    /\ calls' = calls + 1
    /\ UNCHANGED <<client, listener, trace>>
    /\ UNCHANGED codec

\* the server closes the connection
Server_close ==
    /\ kind = "Client" /\ stream = "open"
    /\ stream' = "closed"
    /\ UNCHANGED <<client, main, ret, sent, listener, trace, calls>>
    /\ UNCHANGED codec

\* cmd/publish.rs, cmd/subscribe.rs: execute returns after disconnect, or
\* with the first error of connect; the process ends, and the listener
\* thread with it
Process_exit ==
    /\ kind = "Client"
    /\ main \in {"failed", "panicked"} \/ (main = "ready" /\ ret.op = "disconnect")
    /\ main' = "exited"
    /\ listener' = IF listener.state = "running" THEN [listener EXCEPT !.state = "killed"]
                   ELSE listener
    /\ UNCHANGED <<client, ret, sent, stream, trace, calls>>
    /\ UNCHANGED codec

ClientInit ==
    /\ build \in Builds
    /\ kind = "Client"
    /\ value = None
    /\ wire = <<>>
    /\ result = None
    /\ pc = "client"
    /\ NoClient

ClientNext ==
    \/ Client_connect
    \/ Client_publish
    \/ Client_handle_pub_qos
    \/ Client_subscribe
    \/ Client_listen
    \/ Listener_receive
    \/ Client_disconnect
    \/ Server_close
    \/ Process_exit

ClientSpec == ClientInit /\ [][ClientNext]_vars

\* the listener thread is scheduled, and a process whose main function has
\* returned ends
ClientLive == ClientSpec /\ WF_vars(Listener_receive) /\ WF_vars(Process_exit)

----------------------------------------------------------------------------
(* Claims                                                                  *)

\* C1: a variable byte integer n in 0..268,435,455 encodes to 1 byte up to
\* 127, 2 up to 16,383, 3 up to 2,097,151 and 4 beyond, which is what
\* encoded_len reports; 0 encodes to the single byte 0x00; decoding the bytes
\* gives n back.
C1_VbiRoundTrip ==
    (kind = "VariableByteInteger" /\ pc \in {"encoded", "decoded"}) =>
        /\ Len(wire) = VariableByteInteger_encoded_len(value)
        /\ Len(wire) = (IF value <= 127 THEN 1 ELSE IF value <= 16383 THEN 2
                        ELSE IF value <= 2097151 THEN 3 ELSE 4)
        /\ (value = 0 => wire = <<0>>)
        /\ (pc = "decoded" => result = Ok(value))

C1_Witness ==
    /\ kind = "VariableByteInteger" /\ pc = "decoded"
    /\ value = 268435455 /\ wire = <<255, 255, 255, 127>> /\ result = Ok(268435455)

\* C2: a Publish with QoS 1 or 2 and a packet identifier, once encoded, is
\* decoded successfully by Publish::try_from, with the same topic name, QoS,
\* packet identifier, properties and payload.
C2_PublishQoSRoundTrip ==
    (/\ kind = "Publish" /\ pc = "decoded"
     /\ value.qos_level \in {1, 2} /\ IsSome(value.packet_identifier)) =>
        /\ IsOk(result)
        /\ result.val.topic_name = value.topic_name
        /\ result.val.qos_level = value.qos_level
        /\ result.val.packet_identifier = value.packet_identifier
        /\ result.val.properties = value.properties
        /\ result.val.payload = value.payload

\* C3: a Puback with reason code Success and no properties encodes to
\* exactly [64, 2, p_hi, p_lo], and decoding those four bytes succeeds with
\* packet identifier p, reason code Success and no properties.
C3_PubackFourByteRoundTrip ==
    (/\ kind = "Puback" /\ pc \in {"encoded", "decoded"}
     /\ value.reason_code = Success /\ value.properties = None) =>
        /\ wire = <<64, 2, value.packet_identifier \div 256, value.packet_identifier % 256>>
        /\ pc = "decoded" => result = Ok(AckPacket(value.packet_identifier, Success, None))

\* C4: decoding the 27-byte Connack [32,25,1,0,22, 18,0,16,"generated-123456",
\* 19,0,135] succeeds with session present, reason code Success, the assigned
\* client identifier "generated-123456" and server keep alive 135; and an
\* encoded Connack whose last property is a two-byte integer that ends the
\* input decodes successfully.
C4_ConnackTwoByteIntLast ==
    /\ (kind = "Connack" /\ pc = "answered" /\ wire = Connack_bytes) =>
           result = Ok([session_present |-> TRUE, reason_code |-> Success,
                        properties |-> Some([PropertiesDefault("ConnackProperties") EXCEPT
                                       !.assigned_client_identifier = Some(Str_generated),
                                       !.server_keep_alive = Some(135)])])
    /\ (/\ kind = "Connack" /\ pc = "decoded" /\ IsSome(value.properties)
        /\ LET fs == Fields("ConnackProperties")
               set == {i \in 1..Len(fs) :
                          IF fs[i].ty = "HashMap" THEN value.properties[1][fs[i].name] # {}
                          ELSE IsSome(value.properties[1][fs[i].name])}
           IN  \E i \in set : fs[i].ty = "u16" /\ \A j \in set : j <= i)
       => IsOk(result)

C6_ConnectRoundTrip ==
    (/\ kind = "Connect" /\ pc = "decoded"
     /\ IsSome(value.password) => IsSome(value.username)) =>
        result = Ok(value)

\* C7: a Disconnect with any reason code and a non-empty property set (any
\* subset of session expiry interval, reason string, server reference, user
\* properties), once encoded, is decoded successfully by Disconnect::try_from
\* with the same reason code and property values; Disconnect{Success, session
\* expiry 180, reason string "because"} encodes to
\* [224,17,0,15,17,0,0,0,180,31,0,7,"because"] and those bytes decode to it.
C7_DisconnectRoundTrip ==
    /\ (/\ kind = "Disconnect" /\ pc = "decoded" /\ IsSome(value.properties)
        /\ value.properties[1] # PropertiesDefault("DisconnectProperties")) =>
           result = Ok(value)
    /\ (/\ kind = "Disconnect" /\ pc \in {"encoded", "decoded"}
        /\ value = [reason_code |-> Success,
                    properties |-> Some(PropsWith("DisconnectProperties",
                                       {"session_expiry_interval", "reason_string"}, 1))]) =>
           wire = <<224, 17, 0, 15, 17, 0, 0, 0, 180, 31, 0, 7>> \o Str_because
    /\ (/\ kind = "Disconnect" /\ pc = "answered"
        /\ wire = <<224, 17, 0, 15, 17, 0, 0, 0, 180, 31, 0, 7>> \o Str_because) =>
           result = Ok([reason_code |-> Success,
                        properties |-> Some(PropsWith("DisconnectProperties",
                                           {"session_expiry_interval", "reason_string"}, 1))])

\* C8: in the output of every packet encoder the variable byte integer after
\* the first byte decodes to the number of bytes that follow it, also when
\* that number is 127, 128, 16383 or 16384.
C8_RemainingLength ==
    (kind \in PacketKinds /\ pc \in {"encoded", "decoded"}) =>
        /\ Len(wire) >= 2
        /\ LET rl == vbi_scan(SliceFrom(wire, 1))
           IN  /\ ~rl.ovf
               /\ wire[1 + rl.consumed] < 128
               /\ rl.value = Len(wire) - 1 - rl.consumed
               /\ VariableByteInteger_try_from(SliceFrom(wire, 1)) = Ok(rl.value)

C8_Witness ==
    /\ kind = "Subscribe" /\ pc = "encoded"
    /\ Len(wire) = 16384 + 4 /\ wire[2] = 128 /\ wire[3] = 128 /\ wire[4] = 1

\* C9: the block a derived property struct encodes to starts with a variable
\* byte integer whose value is the number of bytes following it; a struct
\* with no field set and no user property encodes to the single byte 0x00.
C9_PropertyBlockLength ==
    (kind \in PropertyStructs /\ pc \in {"encoded", "decoded"}) =>
        /\ ~vbi_scan(wire).ovf
        /\ vbi_scan(wire).value = Len(wire) - vbi_scan(wire).consumed
        /\ wire[vbi_scan(wire).consumed] < 128
        /\ (value = PropertiesDefault(kind) => wire = <<0>>)

C9_Witness ==
    /\ kind = "ConnackProperties" /\ pc = "encoded"
    /\ IsSome(value.server_keep_alive) /\ IsSome(value.assigned_client_identifier)
    /\ Len(wire) > 20
    /\ vbi_scan(wire).value = Len(wire) - 1

\* C10: decoding an otherwise well-formed acknowledgement whose reason code
\* is defined but not permitted for its packet type is a ProtocolError
\* (Puback and Pubrec: outside Success, NoMatchingSubscribers,
\* UnspecifiedError, ImplementationSpecificError, NotAuthorized,
\* TopicNameInvalid, PacketIdentifierInUse, QuotaExceeded,
\* PayloadFormatInvalid; Pubrel and Pubcomp: outside Success,
\* PacketIdentifierNotFound), and new() rejects exactly the same codes.
C10_AckReasonCodeRejected ==
    LET permitted == IF kind \in {"Puback", "Pubrec"}
                     THEN {0, 16, 128, 131, 135, 144, 145, 151, 153}
                     ELSE {0, 146}
    IN  (kind \in AckKinds /\ pc \in {"decoded", "built"}) =>
            IF value.reason_code \in permitted
            THEN result # Err("ProtocolError") /\ (pc = "built" => IsOk(result))
            ELSE result = Err("ProtocolError")

C10_Witness ==
    /\ kind = "Pubcomp" /\ pc = "decoded"
    /\ value.reason_code = 145 /\ IsSome(value.properties)
    /\ result = Err("ProtocolError")

\* C11: converting a Puback, Pubrec, Pubrel or Pubcomp whose reason code is
\* outside the packet's permitted set to bytes does not produce a packet that
\* carries that code.
C11_AckEncodeRejectsReasonCode ==
    LET permitted == IF kind \in {"Puback", "Pubrec"}
                     THEN {0, 16, 128, 131, 135, 144, 145, 151, 153}
                     ELSE {0, 146}
        rl == vbi_scan(SliceFrom(wire, 1))
    IN  (/\ kind \in AckKinds /\ pc \in {"encoded", "decoded"}
         /\ value.reason_code \notin permitted) =>
            ~(/\ Len(wire) >= rl.consumed + 4
              /\ wire[rl.consumed + 4] = value.reason_code)

\* C15: a Puback, Pubrec, Pubrel or Pubcomp with reason code Success and no
\* properties encodes to four bytes with remaining length 2, without reason
\* code and property block; the reason code and the property block are there
\* exactly when the reason code is not Success or properties are present.
C15_AckShortForm ==
    (kind \in AckKinds /\ pc \in {"encoded", "decoded"}) =>
        IF value.reason_code = Success /\ value.properties = None
        THEN /\ Len(wire) = 4 /\ wire[2] = 2
             /\ SliceFrom(wire, 2) = push_be_u16(value.packet_identifier)
        ELSE /\ Len(wire) >= 6
             /\ wire[vbi_scan(SliceFrom(wire, 1)).consumed + 4] = value.reason_code

\* C13: the connect flags built from a Connect, converted to their byte and
\* parsed with ConnectFlags::try_from, come back equal to the flags built
\* (clean start, will flag, will QoS, will retain, user name flag, password
\* flag), and the byte has the reserved bit 0 clear.
C13_ConnectFlagsSymmetry ==
    (kind = "ConnectFlags" /\ pc \in {"encoded", "decoded"}) =>
        /\ Len(wire) = 1 /\ wire[1] \in Byte /\ wire[1] % 2 = 0
        /\ pc = "decoded" => result = Ok(ConnectFlags_build(value))

C13_Witness ==
    /\ kind = "ConnectFlags" /\ pc = "decoded"
    /\ IsSome(value.will) /\ value.will[1].qos = 2 /\ value.will[1].retain
    /\ IsSome(value.username) /\ IsSome(value.password) /\ value.clean_start
    /\ wire = <<246>>
    /\ IsOk(result) /\ result.val.will_qos = Some(2) /\ result.val.password_flag

\* C14: parsing a connect flags byte fails when the reserved bit 0 is set,
\* when the will QoS bits 3-4 are not zero while the will flag (bit 2) is
\* clear, and when the will flag is set and the will QoS bits are 3; every
\* other byte parses successfully.
C14_ConnectFlagsRejected ==
    (kind = "ConnectFlags" /\ pc = "answered") =>
        LET b == wire[1]
            qos == (b \div 8) % 4
            will == (b \div 4) % 2
        IN  IF b % 2 = 1 \/ (will = 0 /\ qos # 0) \/ (will = 1 /\ qos = 3)
            THEN IsErr(result)
            ELSE IsOk(result)

C14_Witness ==
    /\ kind = "ConnectFlags" /\ pc = "answered"
    /\ wire = <<8>> /\ result = Err("MalformedPacket")

\* C12: the encoded Connect holds a password field exactly when bit 6 of its
\* connect flags byte is set, and never without a user name; a Connect with a
\* password and no user name encodes to a packet without password bytes, the
\* packet of the same Connect without password, which the decoder consumes
\* to the end.
C12_PasswordOnlyWithFlag ==
    (kind = "Connect" /\ pc \in {"encoded", "decoded"}) =>
        LET flags == wire[vbi_scan(SliceFrom(wire, 1)).consumed + 9]
            password_flag == Bit(flags, 6) = 1
        IN  /\ password_flag => Bit(flags, 7) = 1 /\ IsSome(value.username)
            /\ password_flag <=> (IsSome(value.username) /\ IsSome(value.password))
            /\ ~password_flag =>
                   \E io \in Orders(UserProperties(kind, value)) :
                       wire = Connect_into([value EXCEPT !.password = None], io)
            /\ (pc = "decoded" /\ ~password_flag /\ IsOk(result)) =>
                   result.val.password = None

\* C16: decoding a Publish gives dup the value of bit 3 and retain the value
\* of bit 0 of the first byte, so that a Publish that is encoded and decoded
\* keeps its dup and retain.
C16_PublishDupRetain ==
    (kind = "Publish" /\ pc \in {"decoded", "answered"} /\ IsOk(result)) =>
        /\ result.val.dup = (Bit(wire[1], 3) = 1)
        /\ result.val.retain = (Bit(wire[1], 0) = 1)
        /\ pc = "decoded" => /\ result.val.dup = value.dup
                             /\ result.val.retain = value.retain

\* C17: no decoder aborts: for every input (empty, a lone first byte, cut
\* short inside the remaining length, a string or a property, or other
\* bytes) each packet decoder and each primitive decoder (UTF8String,
\* BinaryData, VariableByteInteger) returns a value or an MqttError, never a
\* panic.
C17_DecodersDoNotPanic ==
    (kind \in ReceivedKinds /\ pc = "answered") => (IsOk(result) \/ IsErr(result))

\* C18: decoding a variable byte integer returns an error when the first
\* four bytes all have the continuation bit set, and when the input ends
\* with the continuation bit of the last byte read still set; it returns no
\* value for such input.
C18_VbiRejectsUnterminated ==
    (/\ kind = "VariableByteInteger" /\ pc = "answered"
     /\ \/ Len(wire) >= 4 /\ \A i \in 1..4 : wire[i] >= 128
        \/ \A i \in 1..Len(wire) : wire[i] >= 128) =>
        IsErr(result)


\* the received blocks in which an identifier other than user property
\* (38) occurs twice
RepeatedIdentifierBlocks ==
    {<<8, 31, 0, 1, 97, 31, 0, 1, 98>>, <<8, 28, 0, 1, 97, 28, 0, 1, 98>>,
     <<14, 17, 0, 0, 0, 1, 17, 0, 0, 0, 2, 31, 0, 1, 97>>,
     <<6, 33, 0, 1, 33, 0, 2, 0>>, <<4, 36, 1, 36, 2>>, <<4, 37, 1, 37, 0>>}

\* C19: parsing a property block in which an identifier other than user
\* property occurs more than once returns a protocol error; it never
\* succeeds with one of the duplicate values kept
C19_RepeatedIdentifierRejected ==
    (kind \in ReceivedPropertyStructs /\ pc = "answered"
        /\ wire \in RepeatedIdentifierBlocks) =>
        result = Err("ProtocolError")

\* the length L a received property block declares in its prefix
DeclaredLength == VariableByteInteger_try_from(wire).val

\* C20: a successful parse of a non-empty property block reports
\* (encoded size of L) + L bytes read, L the declared block length; a block
\* whose last property extends past L is not accepted
C20_ParsedExactlyDeclaredLength ==
    (kind \in ReceivedPropertyStructs /\ pc = "answered" /\ Len(wire) > 0
        /\ IsOk(result)) =>
        result.val.bytes_read =
            VariableByteInteger_encoded_len(DeclaredLength) + DeclaredLength

\* the received blocks that hold user properties (identifier 38) only, with
\* the number of pairs in the block
UserPropertyBlocks ==
    {[block |-> <<7, 38, 0, 1, 107, 0, 1, 97>>, pairs |-> 1],
     [block |-> <<14, 38, 0, 1, 107, 0, 1, 97, 38, 0, 1, 108, 0, 1, 98>>, pairs |-> 2],
     [block |-> <<14, 38, 0, 1, 107, 0, 1, 97, 38, 0, 1, 107, 0, 1, 98>>, pairs |-> 2]}

\* C21: decoding a property block that holds k user-property pairs, pairs
\* with the same key included, yields a value that holds all k pairs
C21_UserPropertiesAllKept ==
    \A b \in UserPropertyBlocks :
        (kind = "DisconnectProperties" /\ pc = "answered" /\ wire = b.block) =>
            /\ IsOk(result)
            /\ IsSome(result.val.value)
            /\ Cardinality(result.val.value[1].user_property) = b.pairs

\* C22: ReasonCode::is_err returns true exactly for the reason codes whose
\* numeric value is 128 or higher, and false for the eight codes below 128
C22_IsErrFromUnspecifiedError ==
    (kind = "ReasonCode" /\ pc = "answered") =>
        result = Ok(value >= 128)

\* the options byte of a received topic filter "a/b"
ReceivedOptions == wire[Len(wire)]

\* C23: decoding a Subscribe topic filter succeeds exactly when the options
\* byte has maximum QoS (bits 0-1) and retain handling (bits 4-5) in 0..2 and
\* the reserved bits 6-7 clear, and then returns the filter and the options
\* encoded in the byte; every other options byte is rejected with an error
C23_TopicFilterOptions ==
    (kind = "TopicFilter" /\ pc = "answered" /\ Len(wire) = 2 + Len(Str_ab) + 1) =>
        IF /\ BitAnd(ReceivedOptions, <<0, 1>>) \in 0..2
           /\ BitAnd(ReceivedOptions, <<4, 5>>) \in 0..2
           /\ BitAnd(ReceivedOptions, <<6, 7>>) = 0
        THEN result = Ok([filter |-> Str_ab,
                          maximum_qos |-> ReceivedOptions % 4,
                          no_local |-> (ReceivedOptions \div 4) % 2 = 1,
                          retain_as_published |-> (ReceivedOptions \div 8) % 2 = 1,
                          retain_handling |-> (ReceivedOptions \div 16) % 4])
        ELSE IsErr(result)

\* C28: u16_from_be_bytes returns the big-endian u16 of the first two bytes
\* of every slice of two bytes or more and an error only for a shorter
\* slice; u32_from_be_bytes likewise with four bytes
C28_IntegersFromExactSlices ==
    /\ (kind = "u16" /\ pc = "answered") =>
           IF Len(wire) >= 2 THEN result = Ok(wire[1] * 256 + wire[2])
           ELSE IsErr(result)
    /\ (kind = "u32" /\ pc = "answered") =>
           IF Len(wire) >= 4
           THEN result = Ok(wire[1] * 16777216 + wire[2] * 65536 + wire[3] * 256 + wire[4])
           ELSE IsErr(result)

\* C30: when the variable byte integer decoder returns v from bytes whose
\* integer ends with a byte without continuation bit, encoded_len(v) is the
\* number of bytes the decoder consumed, non-minimal encodings included
C30_EncodedLenIsConsumed ==
    (kind = "VariableByteInteger" /\ pc = "answered" /\ IsOk(result)
        /\ vbi_scan(wire).consumed > 0 /\ wire[vbi_scan(wire).consumed] < 128) =>
        VariableByteInteger_encoded_len(result.val) = vbi_scan(wire).consumed

\* the last event of the publish call in progress, "" before the first
LastEvent == IF trace.events = <<>> THEN "" ELSE trace.events[Len(trace.events)]

\* a publish call is inside handle_pub_qos, or was the last call to return:
\* trace, and wire up to the next receive, are those of that call
InAckChain == kind = "Client" /\ main = "handle_pub_qos"

PublishReturned == kind = "Client" /\ main # "handle_pub_qos" /\ ret.op = "publish"

\* the packet identifier in a received acknowledgement with a one-byte
\* remaining length
ReceivedPacketIdentifier == wire[3] * 256 + wire[4]

\* the reason code the acknowledgement answering a received one has to
\* carry: the publish of the client went out with the session's identifier
ExpectedReasonCode ==
    IF ReceivedPacketIdentifier = Session_packet_identifier
    THEN Success ELSE PacketIdentifierNotFound

\* C24: in the QoS-2 flow of a publish sent with packet identifier p, the
\* Pubrel sent after a received Pubrec with packet identifier q carries
\* Success if q = p and PacketIdentifierNotFound otherwise; likewise the
\* Pubcomp sent in answer to a received Pubrel
C24_AckChainReasonCode ==
    ((InAckChain \/ PublishReturned) /\ LastEvent \in {"sent PUBREL", "sent PUBCOMP"}) =>
        /\ sent[Len(sent)][1] =
              (IF LastEvent = "sent PUBREL" THEN Pubrel_FIRST_BYTE ELSE Pubcomp_FIRST_BYTE)
        /\ SubSeq(sent[Len(sent)], 3, 4) = SubSeq(wire, 3, 4)
        /\ sent[Len(sent)][5] = ExpectedReasonCode

C24_Witness ==
    /\ InAckChain /\ LastEvent = "sent PUBREL"
    /\ ReceivedPacketIdentifier = Session_packet_identifier + 1
    /\ sent[Len(sent)][5] = PacketIdentifierNotFound

\* C25: publish returns Ok after a QoS-1 Publish only when a Puback has
\* been received, and after a QoS-2 Publish only when a Pubrec has been
\* received, a Pubrel sent and then a Pubcomp received, in that order
C25_AckChainOrder ==
    (PublishReturned /\ IsOk(ret.res)) =>
        trace.events = CASE trace.qos = 0 -> <<>>
                         [] trace.qos = 1 -> <<"PUBACK">>
                         [] trace.qos = 2 -> <<"PUBREC", "sent PUBREL", "PUBCOMP">>

\* the reason code of a received Disconnect with a one-byte remaining length
ReceivedDisconnectReason == IF wire[2] = 0 THEN Success ELSE wire[3]

\* C26: a Disconnect received at any stage of the ack chain ends it: publish
\* returns an error with the Disconnect's reason code, the client is marked
\* not connected, no further packet is sent by that call, and a later
\* Client::disconnect sends nothing
C26_DisconnectEndsChain ==
    /\ [](PublishReturned /\ LastEvent = "DISCONNECT" =>
            /\ ret.res = ServerDisconnected(ReceivedDisconnectReason)
            /\ ~client.connected)
    /\ [][(PublishReturned /\ LastEvent = "DISCONNECT" /\ ret'.op = "disconnect") =>
               sent' = sent]_vars

\* C27: once the stream is closed, by the client or by the server, a
\* running listener thread eventually terminates
C27_ListenerTerminates ==
    (kind = "Client" /\ stream # "open" /\ listener.state = "running")
        ~> (listener.state # "running")

\* C29: Client::connect yields a connected client only when the received
\* Connack carries reason code Success
C29_ConnectedOnlyOnSuccess ==
    (kind = "Client" /\ ret.op = "connect" /\ client.connected) =>
        wire[4] = Success
====
